---- MODULE Spec2Model ----
(***************************************************************************)
(* A model of slykey's trigger-matching engine (src/core/engine.rs) and of *)
(* the macro language it invokes (src/core/expansion.rs).                  *)
(*                                                                         *)
(* A Rust String is a sequence of one-character strings: "ab" is           *)
(* <<"a", "b">>.  The model's alphabet is ASCII, so a byte offset of the   *)
(* source is a character offset here.  Offsets are 0-based as in the       *)
(* source; s[i..j] of the source is Slice(s, i, j).                        *)
(* Option<T> is None or Some(v); Result<T> is Ok(v) or Err(e).             *)
(***************************************************************************)
EXTENDS Integers, Sequences, FiniteSets, TLC

None == [some |-> FALSE]
Some(v) == [some |-> TRUE, value |-> v]

Ok(v) == [ok |-> TRUE, value |-> v]
Err(e) == [ok |-> FALSE, error |-> e]

Unit == <<>>

Slice(s, i, j) == SubSeq(s, i + 1, j)

SliceFrom(s, i) == SubSeq(s, i + 1, Len(s))

\* str::ends_with / str::starts_with
ends_with(s, t) ==
  /\ Len(t) <= Len(s)
  /\ SubSeq(s, Len(s) - Len(t) + 1, Len(s)) = t

starts_with(s, t) ==
  /\ Len(t) <= Len(s)
  /\ SubSeq(s, 1, Len(t)) = t

\* str::contains(char)
contains_char(s, c) == \E k \in 1..Len(s) : s[k] = c

\* String::pop: the string without its last character (unchanged when empty)
pop(s) == IF Len(s) = 0 THEN s ELSE SubSeq(s, 1, Len(s) - 1)

(***************************************************************************)
(* Character classes used by trim, to_ascii_uppercase and the integer      *)
(* parsers.                                                                *)
(***************************************************************************)
LowerCase ==
  <<"a", "b", "c", "d", "e", "f", "g", "h", "i", "j", "k", "l", "m",
    "n", "o", "p", "q", "r", "s", "t", "u", "v", "w", "x", "y", "z">>

UpperCase ==
  <<"A", "B", "C", "D", "E", "F", "G", "H", "I", "J", "K", "L", "M",
    "N", "O", "P", "Q", "R", "S", "T", "U", "V", "W", "X", "Y", "Z">>

Digits == <<"0", "1", "2", "3", "4", "5", "6", "7", "8", "9">>

WhiteSpace == {" ", "\t", "\n", "\r"}

upper_char(c) ==
  IF \E k \in 1..26 : LowerCase[k] = c
  THEN UpperCase[CHOOSE k \in 1..26 : LowerCase[k] = c]
  ELSE c

lower_char(c) ==
  IF \E k \in 1..26 : UpperCase[k] = c
  THEN LowerCase[CHOOSE k \in 1..26 : UpperCase[k] = c]
  ELSE c

to_ascii_uppercase(s) == [k \in 1..Len(s) |-> upper_char(s[k])]

to_ascii_lowercase(s) == [k \in 1..Len(s) |-> lower_char(s[k])]

eq_ignore_ascii_case(s, t) == to_ascii_uppercase(s) = to_ascii_uppercase(t)

RECURSIVE trim_start(_)
trim_start(s) ==
  IF Len(s) > 0 /\ s[1] \in WhiteSpace THEN trim_start(Tail(s)) ELSE s

RECURSIVE trim_end(_)
trim_end(s) ==
  IF Len(s) > 0 /\ s[Len(s)] \in WhiteSpace THEN trim_end(pop(s)) ELSE s

trim(s) == trim_end(trim_start(s))

\* str::split_once(':'): the parts before and after the first ':'
split_once(s, c) ==
  IF contains_char(s, c)
  THEN LET k == CHOOSE k \in 1..Len(s) :
                  s[k] = c /\ \A j \in 1..(k - 1) : s[j] # c
       IN Some(<<SubSeq(s, 1, k - 1), SubSeq(s, k + 1, Len(s))>>)
  ELSE None

starts_with_at(haystack, index, needle) ==
  /\ index + Len(needle) <= Len(haystack)
  /\ Slice(haystack, index, index + Len(needle)) = needle

\* The offset of the first "}}" at or after start
find_macro_end(input, start) ==
  LET hits == {j \in start..(Len(input) - 2) : starts_with_at(input, j, <<"}", "}">>)}
  IN IF hits = {} THEN None
     ELSE Some(CHOOSE j \in hits : \A h \in hits : j <= h)

(***************************************************************************)
(* OutputAction (expansion.rs) and SpecialKey (io/output.rs).              *)
(***************************************************************************)
SpecialKey ==
  {"Enter", "Tab", "Escape", "Backspace", "Space", "Left", "Right", "Up",
   "Down", "Home", "End", "Delete", "PageUp", "PageDown", "F1", "F2", "F3",
   "F4", "F5", "F6", "F7", "F8", "F9", "F10", "F11", "F12"}

Text(s) == [tag |-> "Text", text |-> s]
Key(k) == [tag |-> "Key", key |-> k]
SleepMs(ms) == [tag |-> "SleepMs", ms |-> ms]
MoveCaret(amount) == [tag |-> "MoveCaret", amount |-> amount]

\* The names parse_special_key accepts, each with its key
SpecialKeyNames ==
  { <<<<"E", "N", "T", "E", "R">>, "Enter">>,
    <<<<"R", "E", "T", "U", "R", "N">>, "Enter">>,
    <<<<"T", "A", "B">>, "Tab">>,
    <<<<"E", "S", "C">>, "Escape">>,
    <<<<"E", "S", "C", "A", "P", "E">>, "Escape">>,
    <<<<"B", "A", "C", "K", "S", "P", "A", "C", "E">>, "Backspace">>,
    <<<<"S", "P", "A", "C", "E">>, "Space">>,
    <<<<"L", "E", "F", "T">>, "Left">>,
    <<<<"R", "I", "G", "H", "T">>, "Right">>,
    <<<<"U", "P">>, "Up">>,
    <<<<"D", "O", "W", "N">>, "Down">>,
    <<<<"H", "O", "M", "E">>, "Home">>,
    <<<<"E", "N", "D">>, "End">>,
    <<<<"D", "E", "L", "E", "T", "E">>, "Delete">>,
    <<<<"P", "A", "G", "E", "U", "P">>, "PageUp">>,
    <<<<"P", "A", "G", "E", "D", "O", "W", "N">>, "PageDown">>,
    <<<<"F", "1">>, "F1">>,
    <<<<"F", "2">>, "F2">>,
    <<<<"F", "3">>, "F3">>,
    <<<<"F", "4">>, "F4">>,
    <<<<"F", "5">>, "F5">>,
    <<<<"F", "6">>, "F6">>,
    <<<<"F", "7">>, "F7">>,
    <<<<"F", "8">>, "F8">>,
    <<<<"F", "9">>, "F9">>,
    <<<<"F", "1", "0">>, "F10">>,
    <<<<"F", "1", "1">>, "F11">>,
    <<<<"F", "1", "2">>, "F12">> }

parse_special_key(name) ==
  LET up == to_ascii_uppercase(name)
  IN IF \E e \in SpecialKeyNames : e[1] = up
     THEN Ok((CHOOSE e \in SpecialKeyNames : e[1] = up)[2])
     ELSE Err([kind |-> "unknown special key in macro", name |-> up])

digit_value(c) == (CHOOSE k \in 1..10 : Digits[k] = c) - 1

is_digit(c) == \E k \in 1..10 : Digits[k] = c

RECURSIVE digits_value(_)
digits_value(s) ==
  IF Len(s) = 0 THEN 0
  ELSE 10 * digits_value(pop(s)) + digit_value(s[Len(s)])

all_digits(s) == Len(s) > 0 /\ \A k \in 1..Len(s) : is_digit(s[k])

\* str::parse::<u64>: an optional '+', then one digit or more
parse_u64(s) ==
  LET d == IF Len(s) > 0 /\ s[1] = "+" THEN Tail(s) ELSE s
  IN IF all_digits(d) THEN Ok(digits_value(d))
     ELSE Err([kind |-> "invalid integer"])

\* str::parse::<i64>: an optional '+' or '-', then one digit or more
parse_i64(s) ==
  LET neg == Len(s) > 0 /\ s[1] = "-"
      d == IF Len(s) > 0 /\ s[1] \in {"+", "-"} THEN Tail(s) ELSE s
  IN IF all_digits(d)
     THEN Ok(IF neg THEN 0 - digits_value(d) ELSE digits_value(d))
     ELSE Err([kind |-> "invalid integer"])

KEY == <<"K", "E", "Y">>
SLEEP_MS == <<"S", "L", "E", "E", "P", "_", "M", "S">>
MOVE_CARET == <<"M", "O", "V", "E", "_", "C", "A", "R", "E", "T">>
CARET_MOVE == <<"C", "A", "R", "E", "T", "_", "M", "O", "V", "E">>

parse_action_macro(body) ==
  LET parts == split_once(body, ":")
  IN IF parts.some
     THEN LET name == to_ascii_uppercase(trim(parts.value[1]))
              value == trim(parts.value[2])
          IN CASE name = KEY ->
                    LET k == parse_special_key(value)
                    IN IF k.ok THEN Ok(Key(k.value)) ELSE k
               [] name = SLEEP_MS ->
                    LET ms == parse_u64(value)
                    IN IF ms.ok THEN Ok(SleepMs(ms.value)) ELSE ms
               [] name \in {MOVE_CARET, CARET_MOVE} ->
                    LET amount == parse_i64(value)
                    IN IF amount.ok THEN Ok(MoveCaret(amount.value)) ELSE amount
               [] OTHER -> Err([kind |-> "unsupported macro", name |-> name])
     ELSE Err([kind |-> "unsupported macro", name |-> body])

\* The loop of parse_action_macros_only from offset i on, and its final flush
RECURSIVE parse_action_macros_from(_, _, _, _)
parse_action_macros_from(input, i, actions, text_buf) ==
  IF i >= Len(input)
  THEN Ok(IF text_buf # <<>> THEN Append(actions, Text(text_buf)) ELSE actions)
  ELSE IF starts_with_at(input, i, <<"{", "{">>)
  THEN LET flushed == IF text_buf # <<>> THEN Append(actions, Text(text_buf))
                      ELSE actions
           end == find_macro_end(input, i + 2)
       IN IF ~end.some
          THEN Err([kind |-> "unclosed macro", at |-> i])
          ELSE LET body == Slice(input, i + 2, end.value)
               IN IF contains_char(body, ":")
                  THEN LET a == parse_action_macro(trim(body))
                       IN IF a.ok
                          THEN parse_action_macros_from(
                                 input, end.value + 2, Append(flushed, a.value), <<>>)
                          ELSE a
                  ELSE parse_action_macros_from(
                         input, end.value + 2, flushed,
                         Slice(input, i, end.value + 2))
  ELSE parse_action_macros_from(input, i + 1, actions, Append(text_buf, input[i + 1]))

parse_action_macros_only(input) == parse_action_macros_from(input, 0, <<>>, <<>>)

(***************************************************************************)
(* Pass 1: template rendering.  The clock, the shell and the emoji table   *)
(* are outside the repository: Local::now() is one fixed instant, `sh -c`  *)
(* is a table of commands with their exit status and output, and           *)
(* emojis::get_by_shortcode is a table of shortcodes.                      *)
(***************************************************************************)
NowDateTime == <<"2", "0", "2", "4", "-", "0", "1", "-", "0", "2", " ", "0", "3", ":", "0", "4", ":", "0", "5">>
NowDate == <<"2", "0", "2", "4", "-", "0", "1", "-", "0", "2">>
NowTime == <<"0", "3", ":", "0", "4", ":", "0", "5">>

DATETIME == <<"D", "A", "T", "E", "T", "I", "M", "E">>
DATE == <<"D", "A", "T", "E">>
TIME == <<"T", "I", "M", "E">>
CMD == <<"C", "M", "D">>
COMMAND == <<"C", "O", "M", "M", "A", "N", "D">>
EMOJI == <<"E", "M", "O", "J", "I">>

\* sh -c <command>: [success, code, stdout, stderr]
ShellTable ==
  { <<<<"e", "c", "h", "o", " ", "h", "i">>,
      [success |-> TRUE, code |-> 0, stdout |-> <<"h", "i", "\n">>, stderr |-> <<>>]>>,
    <<<<"t", "r", "u", "e">>,
      [success |-> TRUE, code |-> 0, stdout |-> <<>>, stderr |-> <<>>]>>,
    <<<<"f", "a", "l", "s", "e">>,
      [success |-> FALSE, code |-> 1, stdout |-> <<>>, stderr |-> <<>>]>> }

sh(command) ==
  IF \E e \in ShellTable : e[1] = command
  THEN (CHOOSE e \in ShellTable : e[1] = command)[2]
  ELSE [success |-> FALSE, code |-> 127, stdout |-> <<>>,
        stderr |-> <<"n", "o", "t", " ", "f", "o", "u", "n", "d", "\n">>]

EmojiTable ==
  { <<<<"r", "o", "c", "k", "e", "t">>, <<"U+1F680">>>>,
    <<<<"t", "h", "u", "m", "b", "s", "u", "p">>, <<"U+1F44D">>>>,
    <<<<"+", "1">>, <<"U+1F44D">>>> }

get_by_shortcode(code) ==
  IF \E e \in EmojiTable : e[1] = code
  THEN Some((CHOOSE e \in EmojiTable : e[1] = code)[2])
  ELSE None

\* str::trim_matches(c)
RECURSIVE trim_matches(_, _)
trim_matches(s, c) ==
  IF Len(s) > 0 /\ s[1] = c THEN trim_matches(Tail(s), c)
  ELSE IF Len(s) > 0 /\ s[Len(s)] = c THEN trim_matches(pop(s), c)
  ELSE s

\* str::replace(from, to) for a single character `from`
RECURSIVE replace_char(_, _, _)
replace_char(s, from, to) ==
  IF Len(s) = 0 THEN <<>>
  ELSE (IF s[1] = from THEN to ELSE <<s[1]>>) \o replace_char(Tail(s), from, to)

\* str::trim_end_matches(['\r', '\n'])
RECURSIVE trim_end_newlines(_)
trim_end_newlines(s) ==
  IF Len(s) > 0 /\ s[Len(s)] \in {"\r", "\n"} THEN trim_end_newlines(pop(s)) ELSE s

\* globals is a function from names to values (HashMap<String, String>); a
\* validated table has no two names equal ignoring case, so the first entry the
\* iteration meets is the only one
lookup_global_macro_case_insensitive(globals, name) ==
  IF \E g \in DOMAIN globals : eq_ignore_ascii_case(g, name)
  THEN Some(globals[CHOOSE g \in DOMAIN globals : eq_ignore_ascii_case(g, name)])
  ELSE None

is_template_macro_by_name(name) ==
  to_ascii_uppercase(trim(name)) \in {CMD, COMMAND, EMOJI, DATE, TIME, DATETIME}

is_template_macro_with_argument(name) ==
  to_ascii_uppercase(trim(name)) \in {CMD, COMMAND, EMOJI}

RECURSIVE render_template_macros_from(_, _, _, _, _)
RECURSIVE resolve_global_template_macro(_, _, _)
RECURSIVE render_template_macro_with_argument(_, _, _, _)

render_template_macros_internal(input, globals, resolving_stack) ==
  render_template_macros_from(input, 0, <<>>, globals, resolving_stack)

render_template_macro(name, globals, resolving_stack) ==
  LET normalized_name == to_ascii_uppercase(trim(name))
  IN CASE normalized_name = DATETIME -> Ok(NowDateTime)
       [] normalized_name = DATE -> Ok(NowDate)
       [] normalized_name = TIME -> Ok(NowTime)
       [] OTHER -> resolve_global_template_macro(normalized_name, globals, resolving_stack)

resolve_naming_last(name, globals, resolving_stack) ==
  LET value == lookup_global_macro_case_insensitive(globals, name)
  IN IF ~value.some
     THEN Err([kind |-> "unsupported macro", name |-> name])
     ELSE IF \E k \in 1..Len(resolving_stack) : resolving_stack[k] = name
     THEN Err([kind |-> "global macro cycle detected", chain |-> <<name>>])
     ELSE render_template_macros_internal(
            value.value, globals, Append(resolving_stack, name))

resolve_global_template_macro(name, globals, resolving_stack) ==
  LET value == lookup_global_macro_case_insensitive(globals, name)
  IN IF ~value.some
     THEN Err([kind |-> "unsupported macro", name |-> name])
     ELSE IF \E k \in 1..Len(resolving_stack) : resolving_stack[k] = name
     THEN Err([kind |-> "global macro cycle detected",
               chain |-> Append(resolving_stack, name)])
     ELSE render_template_macros_internal(
            value.value, globals, Append(resolving_stack, name))

render_emoji_macro(shortcode, globals, resolving_stack) ==
  LET rendered_shortcode ==
        render_template_macros_internal(shortcode, globals, resolving_stack)
  IN IF ~rendered_shortcode.ok THEN rendered_shortcode
     ELSE LET normalized_shortcode ==
                to_ascii_lowercase(trim_matches(trim(rendered_shortcode.value), ":"))
              lookup_candidates ==
                << normalized_shortcode,
                   replace_char(normalized_shortcode, "-", <<"_">>),
                   replace_char(normalized_shortcode, "-", <<>>) >>
              found == {k \in 1..3 : get_by_shortcode(lookup_candidates[k]).some}
          IN IF found = {}
             THEN Err([kind |-> "unknown emoji shortcode", name |-> normalized_shortcode])
             ELSE Ok(get_by_shortcode(
                       lookup_candidates[CHOOSE k \in found : \A j \in found : k <= j]).value)

run_linux_command_macro(command, globals, resolving_stack) ==
  LET rendered_command ==
        render_template_macros_internal(command, globals, resolving_stack)
  IN IF ~rendered_command.ok THEN rendered_command
     ELSE LET output == sh(rendered_command.value)
          IN IF ~output.success
             THEN Err([kind |-> "CMD macro command failed", code |-> output.code,
                       stderr |-> trim(output.stderr)])
             ELSE Ok(trim_end_newlines(output.stdout))

render_template_macro_with_argument(name, value, globals, resolving_stack) ==
  LET normalized == to_ascii_uppercase(name)
  IN CASE normalized \in {CMD, COMMAND} ->
            run_linux_command_macro(value, globals, resolving_stack)
       [] normalized = EMOJI -> render_emoji_macro(value, globals, resolving_stack)
       [] OTHER -> Err([kind |-> "unsupported macro", name |-> normalized])

\* A variant that keeps an unclosed macro as literal text
render_keeping_unclosed(input, i, rendered, globals, resolving_stack) ==
  IF i >= Len(input) THEN Ok(rendered)
  ELSE IF starts_with_at(input, i, <<"{", "{">>)
  THEN LET end == find_macro_end(input, i + 2)
       IN IF ~end.some
          THEN Ok(rendered \o SliceFrom(input, i))
          ELSE LET body == trim(Slice(input, i + 2, end.value))
                   parts == split_once(body, ":")
                   piece ==
                     IF parts.some
                     THEN IF is_template_macro_with_argument(parts.value[1])
                          THEN render_template_macro_with_argument(
                                 trim(parts.value[1]), trim(parts.value[2]),
                                 globals, resolving_stack)
                          ELSE Ok(Slice(input, i, end.value + 2))
                     ELSE render_template_macro(body, globals, resolving_stack)
               IN IF piece.ok
                  THEN render_template_macros_from(
                         input, end.value + 2, rendered \o piece.value,
                         globals, resolving_stack)
                  ELSE piece
  ELSE render_template_macros_from(
         input, i + 1, Append(rendered, input[i + 1]), globals, resolving_stack)

\* The loop of render_template_macros_internal from offset i on
render_template_macros_from(input, i, rendered, globals, resolving_stack) ==
  IF i >= Len(input) THEN Ok(rendered)
  ELSE IF starts_with_at(input, i, <<"{", "{">>)
  THEN LET end == find_macro_end(input, i + 2)
       IN IF ~end.some
          THEN Err([kind |-> "unclosed macro", at |-> i])
          ELSE LET body == trim(Slice(input, i + 2, end.value))
                   parts == split_once(body, ":")
                   piece ==
                     IF parts.some
                     THEN IF is_template_macro_with_argument(parts.value[1])
                          THEN render_template_macro_with_argument(
                                 trim(parts.value[1]), trim(parts.value[2]),
                                 globals, resolving_stack)
                          ELSE Ok(Slice(input, i, end.value + 2))
                     ELSE render_template_macro(body, globals, resolving_stack)
               IN IF piece.ok
                  THEN render_template_macros_from(
                         input, end.value + 2, rendered \o piece.value,
                         globals, resolving_stack)
                  ELSE piece
  ELSE render_template_macros_from(
         input, i + 1, Append(rendered, input[i + 1]), globals, resolving_stack)

render_template_macros(input, globals) ==
  render_template_macros_internal(input, globals, <<>>)

parse_expansion_actions(input, globals) ==
  LET templated == render_template_macros(input, globals)
  IN IF templated.ok THEN parse_action_macros_only(templated.value) ELSE templated

(***************************************************************************)
(* Key events (io/events.rs) and the configuration (config.rs).            *)
(***************************************************************************)
SpecialInputKey ==
  {"Enter", "Tab", "Backspace", "Escape", "Left", "Right", "Up", "Down",
   "Home", "End", "Delete", "PageUp", "PageDown", "F1", "F2", "F3", "F4",
   "F5", "F6", "F7", "F8", "F9", "F10", "F11", "F12", "Unknown",
   "Shift", "Ctrl", "Alt", "Meta", "CapsLock"}

KeyEvent(kind, printable, special, is_injected) ==
  [kind |-> kind, printable |-> printable, special |-> special,
   is_injected |-> is_injected]

ExpansionRule(trigger, expansion) == [trigger |-> trigger, expansion |-> expansion]

DefaultBoundaryChars ==
  <<" ", "\t", "\n", ".", ",", ";", ":", "!", "?", ")", "]", "}", ">", "'", "\"">>

\* AppConfig::boundary_chars
boundary_chars(config) ==
  IF config.boundary_chars.some THEN config.boundary_chars.value
  ELSE DefaultBoundaryChars

MenuSnippet(title, content) == [title |-> title, content |-> content]

\* A variant that compares the names of globals as they are written
validate_exact_names(config) ==
  /\ Len(config.expansions) > 0
  /\ \A k \in 1..Len(config.expansions) :
       /\ config.expansions[k].trigger # <<>>
       /\ \A j \in 1..(k - 1) :
            config.expansions[j].trigger # config.expansions[k].trigger
  /\ \A k \in 1..Len(config.snippets) :
       /\ trim(config.snippets[k].title) # <<>>
       /\ config.snippets[k].content # <<>>
       /\ \A j \in 1..(k - 1) :
            config.snippets[j].title # config.snippets[k].title
  /\ \A g \in DOMAIN config.globals :
       /\ trim(g) # <<>>
       /\ \A c \in {"{", "}", ":"} : ~contains_char(trim(g), c)

\* AppConfig::validate: TRUE for Ok(()), FALSE for an error
validate(config) ==
  /\ Len(config.expansions) > 0
  /\ \A k \in 1..Len(config.expansions) :
       /\ config.expansions[k].trigger # <<>>
       /\ \A j \in 1..(k - 1) :
            config.expansions[j].trigger # config.expansions[k].trigger
  /\ \A k \in 1..Len(config.snippets) :
       /\ trim(config.snippets[k].title) # <<>>
       /\ config.snippets[k].content # <<>>
       /\ \A j \in 1..(k - 1) :
            config.snippets[j].title # config.snippets[k].title
  /\ \A g \in DOMAIN config.globals :
       /\ trim(g) # <<>>
       /\ \A c \in {"{", "}", ":"} : ~contains_char(trim(g), c)
       /\ \A h \in DOMAIN config.globals :
            to_ascii_uppercase(trim(g)) = to_ascii_uppercase(trim(h)) => g = h

(***************************************************************************)
(* The engine (core/engine.rs).  An engine value is the record of the      *)
(* struct's fields; `output` is the log of the calls made on the sink,     *)
(* each with the result the sink gave, as the tests' RecordingSink keeps   *)
(* it, and `stderr` holds the "trigger detected" lines that eprintln!      *)
(* wrote (the engine runs with debug off).  A method is an operator from   *)
(* the engine (and its arguments) to                                       *)
(* [self |-> the engine afterwards, ret |-> the Result returned].  `sink`  *)
(* says what the sink answers during the call: sink.backspaces and         *)
(* sink.actions are TRUE for Ok and FALSE for Err.                         *)
(***************************************************************************)
Returned(self, ret) == [self |-> self, ret |-> ret]

NoModifiers == [shift |-> FALSE, ctrl |-> FALSE, alt |-> FALSE, meta |-> FALSE]

\* A variant that forgets the meta flag
any_but_meta(m) == m.shift \/ m.ctrl \/ m.alt

any_active(m) == m.shift \/ m.ctrl \/ m.alt \/ m.meta

PendingExpansion(expected_buffer, backspaces, actions, notification_body) ==
  [expected_buffer |-> expected_buffer, backspaces |-> backspaces,
   actions |-> actions, notification_body |-> notification_body]

send_backspaces(count, ok) == [call |-> "send_backspaces", count |-> count, ok |-> ok]

send_actions(actions, ok) == [call |-> "send_actions", actions |-> actions, ok |-> ok]

RECURSIVE max_chars(_)
max_chars(expansions) ==
  IF Len(expansions) = 0 THEN 0
  ELSE LET rest == max_chars(Tail(expansions))
           n == Len(expansions[1].trigger)
       IN IF n > rest THEN n ELSE rest

\* Engine::new followed by set_output, as run() and the tests build the engine
new(config) ==
  [config |-> config,
   output |-> <<>>,
   stderr |-> <<>>,
   typed_buffer |-> <<>>,
   max_trigger_chars |-> max_chars(config.expansions),
   active_modifiers |-> NoModifiers,
   pending_expansion |-> None]

\* A variant that keeps the cap of the rule set it replaces
reload_keeping_max(self, config) ==
  [self EXCEPT !.config = config,
               !.typed_buffer = <<>>,
               !.pending_expansion = None]

reload_config(self, config) ==
  [self EXCEPT !.max_trigger_chars = max_chars(config.expansions),
               !.config = config,
               !.typed_buffer = <<>>,
               !.pending_expansion = None]

SlackWindow == 8

\* A variant that leaves one character too many
truncate_one_short(self) ==
  LET max_len == self.max_trigger_chars + SlackWindow + 1
      count == Len(self.typed_buffer)
  IN IF count <= max_len THEN self
     ELSE [self EXCEPT !.typed_buffer = SliceFrom(self.typed_buffer, count - max_len)]

\* A variant that keeps the oldest characters and drops the newest
truncate_keeping_oldest(self) ==
  LET max_len == self.max_trigger_chars + SlackWindow
      count == Len(self.typed_buffer)
  IN IF count <= max_len THEN self
     ELSE [self EXCEPT !.typed_buffer = Slice(self.typed_buffer, 0, max_len)]

truncate_buffer_if_needed(self) ==
  LET max_len == self.max_trigger_chars + SlackWindow
      count == Len(self.typed_buffer)
  IN IF count <= max_len THEN self
     ELSE [self EXCEPT !.typed_buffer = SliceFrom(self.typed_buffer, count - max_len)]

\* A variant for which every character is a boundary
every_char(self, c) == TRUE

is_boundary_char(self, c) == contains_char(boundary_chars(self.config), c)

map_input_key_to_output_key(key) ==
  CASE key = "Enter" -> Some("Enter")
    [] key = "Tab" -> Some("Tab")
    [] OTHER -> None

execute_expansion(self, backspaces, actions, notification_body, sink) ==
  IF ~sink.backspaces
  THEN Returned([self EXCEPT !.output = Append(@, send_backspaces(backspaces, FALSE))],
                Err([kind |-> "send_backspaces failed"]))
  ELSE IF ~sink.actions
  THEN Returned([self EXCEPT !.output = @ \o <<send_backspaces(backspaces, TRUE),
                                                send_actions(actions, FALSE)>>],
                Err([kind |-> "send_actions failed"]))
  ELSE Returned([self EXCEPT !.output = @ \o <<send_backspaces(backspaces, TRUE),
                                                send_actions(actions, TRUE)>>,
                             !.typed_buffer = <<>>],
                Ok(Unit))

\* A variant that never defers
dispatch_now(self, expected_buffer, backspaces, actions, notification_body, sink) ==
  execute_expansion([self EXCEPT !.pending_expansion = None],
                    backspaces, actions, notification_body, sink)

\* A variant that keeps a pending expansion when a later match comes
defer_keeping_first(self, expected_buffer, backspaces, actions, notification_body, sink) ==
  IF any_active(self.active_modifiers)
  THEN IF self.pending_expansion.some THEN Returned(self, Ok(Unit))
       ELSE Returned([self EXCEPT !.pending_expansion =
                        Some(PendingExpansion(expected_buffer, backspaces, actions,
                                              notification_body))],
                     Ok(Unit))
  ELSE execute_expansion([self EXCEPT !.pending_expansion = None],
                         backspaces, actions, notification_body, sink)

dispatch_or_defer_expansion(self, expected_buffer, backspaces, actions, notification_body, sink) ==
  IF any_active(self.active_modifiers)
  THEN Returned([self EXCEPT !.pending_expansion =
                   Some(PendingExpansion(expected_buffer, backspaces, actions,
                                         notification_body))],
                Ok(Unit))
  ELSE execute_expansion([self EXCEPT !.pending_expansion = None],
                         backspaces, actions, notification_body, sink)

\* A variant that executes the pending expansion whatever the buffer holds
flush_unchecked(self, sink) ==
  IF any_active(self.active_modifiers) THEN Returned(self, Ok(Unit))
  ELSE IF ~self.pending_expansion.some THEN Returned(self, Ok(Unit))
  ELSE LET pending == self.pending_expansion.value
           taken == [self EXCEPT !.pending_expansion = None]
       IN execute_expansion(taken, pending.backspaces, pending.actions,
                            pending.notification_body, sink)

\* A variant that drops the pending expansion without executing it
flush_dropping(self, sink) ==
  IF any_active(self.active_modifiers) THEN Returned(self, Ok(Unit))
  ELSE Returned([self EXCEPT !.pending_expansion = None], Ok(Unit))

\* A variant that leaves in the slot a pending expansion whose buffer changed
flush_keeping_mismatch(self, sink) ==
  IF any_active(self.active_modifiers) THEN Returned(self, Ok(Unit))
  ELSE IF ~self.pending_expansion.some THEN Returned(self, Ok(Unit))
  ELSE LET pending == self.pending_expansion.value
           taken == [self EXCEPT !.pending_expansion = None]
       IN IF pending.expected_buffer # self.typed_buffer
          THEN Returned(self, Ok(Unit))
          ELSE execute_expansion(taken, pending.backspaces, pending.actions,
                                 pending.notification_body, sink)

flush_pending_expansion_if_ready(self, sink) ==
  IF any_active(self.active_modifiers) THEN Returned(self, Ok(Unit))
  ELSE IF ~self.pending_expansion.some THEN Returned(self, Ok(Unit))
  ELSE LET pending == self.pending_expansion.value
           taken == [self EXCEPT !.pending_expansion = None]
       IN IF pending.expected_buffer # self.typed_buffer
          THEN Returned(taken, Ok(Unit))
          ELSE execute_expansion(taken, pending.backspaces, pending.actions,
                                 pending.notification_body, sink)

\* A variant that takes the longest matching trigger
longest_match(expansions, candidate) ==
  LET hits == {k \in 1..Len(expansions) : ends_with(candidate, expansions[k].trigger)}
  IN IF hits = {} THEN 0
     ELSE CHOOSE k \in hits :
            \A j \in hits : Len(expansions[k].trigger) >= Len(expansions[j].trigger)

\* A variant that takes the last matching rule
last_match(expansions, candidate) ==
  LET hits == {k \in 1..Len(expansions) : ends_with(candidate, expansions[k].trigger)}
  IN IF hits = {} THEN 0 ELSE CHOOSE k \in hits : \A j \in hits : k >= j

\* The loop `for rule in &self.config.expansions` up to its first hit: the
\* index of the first rule, in the configured order, whose trigger is a suffix
\* of candidate; 0 when there is none
first_match(expansions, candidate) ==
  LET hits == {k \in 1..Len(expansions) : ends_with(candidate, expansions[k].trigger)}
  IN IF hits = {} THEN 0 ELSE CHOOSE k \in hits : \A j \in hits : k <= j

\* eprintln!("trigger detected ({mode}): '{trigger}' ... -> expansion fired")
trigger_detected(mode, trigger) ==
  [line |-> "trigger detected", mode |-> mode, trigger |-> trigger]

try_expand_immediate(self, sink) ==
  LET expand(rule, logged, actions) ==
        IF ~actions.ok THEN Returned(logged, actions)
        ELSE dispatch_or_defer_expansion(
               logged, self.typed_buffer, Len(rule.trigger), actions.value,
               Some(rule.trigger), sink)
      matched(rule) ==
        expand(rule,
               [self EXCEPT !.stderr =
                  Append(@, trigger_detected("immediate", rule.trigger))],
               parse_expansion_actions(rule.expansion, self.config.globals))
      at(k) == IF k = 0 THEN Returned(self, Ok(Unit))
               ELSE matched(self.config.expansions[k])
  IN at(first_match(self.config.expansions, self.typed_buffer))

\* A variant that keeps the boundary character in the candidate
whole_buffer(typed_buffer, typed_boundary_char) == typed_buffer

\* let mut candidate = self.typed_buffer.clone(), popped after a character
candidate(typed_buffer, typed_boundary_char) ==
  IF typed_boundary_char.some THEN pop(typed_buffer) ELSE typed_buffer

\* A variant that counts the trigger only
trigger_count(trigger, typed_boundary_char, typed_boundary_key) == Len(trigger)

delete_count(trigger, typed_boundary_char, typed_boundary_key) ==
  Len(trigger)
  + (IF typed_boundary_char.some \/ typed_boundary_key.some THEN 1 ELSE 0)

\* A variant that empties the buffer when no trigger matches
try_expand_boundary_resetting(self, typed_boundary_char, typed_boundary_key, sink) ==
  LET with_char(actions) ==
        IF typed_boundary_char.some
        THEN Append(actions, Text(<<typed_boundary_char.value>>))
        ELSE actions
      with_key(actions, mapped) ==
        IF mapped.some THEN Append(actions, Key(mapped.value)) ELSE actions
      mapped_key ==
        IF typed_boundary_key.some
        THEN map_input_key_to_output_key(typed_boundary_key.value)
        ELSE None
      expand(rule, logged, parsed) ==
        IF ~parsed.ok THEN Returned(logged, parsed)
        ELSE dispatch_or_defer_expansion(
               logged, self.typed_buffer,
               delete_count(rule.trigger, typed_boundary_char, typed_boundary_key),
               with_key(with_char(parsed.value), mapped_key),
               Some(rule.trigger), sink)
      matched(rule) ==
        expand(rule,
               [self EXCEPT !.stderr =
                  Append(@, trigger_detected("boundary", rule.trigger))],
               parse_expansion_actions(rule.expansion, self.config.globals))
      at(k) == IF k = 0 THEN Returned([self EXCEPT !.typed_buffer = <<>>], Ok(Unit))
               ELSE matched(self.config.expansions[k])
  IN at(first_match(self.config.expansions,
                    candidate(self.typed_buffer, typed_boundary_char)))

try_expand_boundary(self, typed_boundary_char, typed_boundary_key, sink) ==
  LET with_char(actions) ==
        IF typed_boundary_char.some
        THEN Append(actions, Text(<<typed_boundary_char.value>>))
        ELSE actions
      with_key(actions, mapped) ==
        IF mapped.some THEN Append(actions, Key(mapped.value)) ELSE actions
      mapped_key ==
        IF typed_boundary_key.some
        THEN map_input_key_to_output_key(typed_boundary_key.value)
        ELSE None
      expand(rule, logged, parsed) ==
        IF ~parsed.ok THEN Returned(logged, parsed)
        ELSE dispatch_or_defer_expansion(
               logged, self.typed_buffer,
               delete_count(rule.trigger, typed_boundary_char, typed_boundary_key),
               with_key(with_char(parsed.value), mapped_key),
               Some(rule.trigger), sink)
      matched(rule) ==
        expand(rule,
               [self EXCEPT !.stderr =
                  Append(@, trigger_detected("boundary", rule.trigger))],
               parse_expansion_actions(rule.expansion, self.config.globals))
      at(k) == IF k = 0 THEN Returned(self, Ok(Unit))
               ELSE matched(self.config.expansions[k])
  IN at(first_match(self.config.expansions,
                    candidate(self.typed_buffer, typed_boundary_char)))

on_printable_char(self, c, sink) ==
  LET pushed == truncate_buffer_if_needed(
                  [self EXCEPT !.typed_buffer = Append(@, c)])
  IN IF pushed.config.match_behavior = "Immediate"
     THEN try_expand_immediate(pushed, sink)
     ELSE IF is_boundary_char(pushed, c)
     THEN try_expand_boundary(pushed, Some(c), None, sink)
     ELSE Returned(pushed, Ok(Unit))

\* A variant in which the press of Alt sets the flag of Meta
on_special_key_press_slip(self, key, sink) ==
  CASE key = "Backspace" ->
         Returned([self EXCEPT !.typed_buffer = pop(@)], Ok(Unit))
    [] key = "Shift" ->
         Returned([self EXCEPT !.active_modifiers.shift = TRUE], Ok(Unit))
    [] key = "Ctrl" ->
         Returned([self EXCEPT !.active_modifiers.ctrl = TRUE], Ok(Unit))
    [] key \in {"Alt", "Meta"} ->
         Returned([self EXCEPT !.active_modifiers.meta = TRUE], Ok(Unit))
    [] key = "CapsLock" -> Returned(self, Ok(Unit))
    [] key \in {"Enter", "Tab"} ->
         IF self.config.match_behavior = "Boundary"
         THEN try_expand_boundary(self, None, Some(key), sink)
         ELSE Returned([self EXCEPT !.typed_buffer = <<>>], Ok(Unit))
    [] OTHER -> Returned([self EXCEPT !.typed_buffer = <<>>], Ok(Unit))

\* A variant in which Backspace empties the buffer
on_special_key_press_wipe(self, key, sink) ==
  CASE key = "Backspace" ->
         Returned([self EXCEPT !.typed_buffer = <<>>], Ok(Unit))
    [] key = "Shift" ->
         Returned([self EXCEPT !.active_modifiers.shift = TRUE], Ok(Unit))
    [] key = "Ctrl" ->
         Returned([self EXCEPT !.active_modifiers.ctrl = TRUE], Ok(Unit))
    [] key = "Alt" ->
         Returned([self EXCEPT !.active_modifiers.alt = TRUE], Ok(Unit))
    [] key = "Meta" ->
         Returned([self EXCEPT !.active_modifiers.meta = TRUE], Ok(Unit))
    [] key = "CapsLock" -> Returned(self, Ok(Unit))
    [] key \in {"Enter", "Tab"} ->
         IF self.config.match_behavior = "Boundary"
         THEN try_expand_boundary(self, None, Some(key), sink)
         ELSE Returned([self EXCEPT !.typed_buffer = <<>>], Ok(Unit))
    [] OTHER -> Returned([self EXCEPT !.typed_buffer = <<>>], Ok(Unit))

\* A variant in which Enter and Tab look for a match in both modes
on_special_key_press_any_mode(self, key, sink) ==
  CASE key = "Backspace" ->
         Returned([self EXCEPT !.typed_buffer = pop(@)], Ok(Unit))
    [] key = "Shift" ->
         Returned([self EXCEPT !.active_modifiers.shift = TRUE], Ok(Unit))
    [] key = "Ctrl" ->
         Returned([self EXCEPT !.active_modifiers.ctrl = TRUE], Ok(Unit))
    [] key = "Alt" ->
         Returned([self EXCEPT !.active_modifiers.alt = TRUE], Ok(Unit))
    [] key = "Meta" ->
         Returned([self EXCEPT !.active_modifiers.meta = TRUE], Ok(Unit))
    [] key = "CapsLock" -> Returned(self, Ok(Unit))
    [] key \in {"Enter", "Tab"} ->
         try_expand_boundary(self, None, Some(key), sink)
    [] OTHER -> Returned([self EXCEPT !.typed_buffer = <<>>], Ok(Unit))

\* A variant in which the keys of the last arm leave the buffer alone
on_special_key_press_lax(self, key, sink) ==
  CASE key = "Backspace" ->
         Returned([self EXCEPT !.typed_buffer = pop(@)], Ok(Unit))
    [] key = "Shift" ->
         Returned([self EXCEPT !.active_modifiers.shift = TRUE], Ok(Unit))
    [] key = "Ctrl" ->
         Returned([self EXCEPT !.active_modifiers.ctrl = TRUE], Ok(Unit))
    [] key = "Alt" ->
         Returned([self EXCEPT !.active_modifiers.alt = TRUE], Ok(Unit))
    [] key = "Meta" ->
         Returned([self EXCEPT !.active_modifiers.meta = TRUE], Ok(Unit))
    [] key = "CapsLock" -> Returned(self, Ok(Unit))
    [] key \in {"Enter", "Tab"} ->
         IF self.config.match_behavior = "Boundary"
         THEN try_expand_boundary(self, None, Some(key), sink)
         ELSE Returned([self EXCEPT !.typed_buffer = <<>>], Ok(Unit))
    [] OTHER -> Returned(self, Ok(Unit))

on_special_key_press(self, key, sink) ==
  CASE key = "Backspace" ->
         Returned([self EXCEPT !.typed_buffer = pop(@)], Ok(Unit))
    [] key = "Shift" ->
         Returned([self EXCEPT !.active_modifiers.shift = TRUE], Ok(Unit))
    [] key = "Ctrl" ->
         Returned([self EXCEPT !.active_modifiers.ctrl = TRUE], Ok(Unit))
    [] key = "Alt" ->
         Returned([self EXCEPT !.active_modifiers.alt = TRUE], Ok(Unit))
    [] key = "Meta" ->
         Returned([self EXCEPT !.active_modifiers.meta = TRUE], Ok(Unit))
    [] key = "CapsLock" -> Returned(self, Ok(Unit))
    [] key \in {"Enter", "Tab"} ->
         IF self.config.match_behavior = "Boundary"
         THEN try_expand_boundary(self, None, Some(key), sink)
         ELSE Returned([self EXCEPT !.typed_buffer = <<>>], Ok(Unit))
    [] OTHER -> Returned([self EXCEPT !.typed_buffer = <<>>], Ok(Unit))

on_special_key_release(self, key, sink) ==
  CASE key = "Shift" ->
         flush_pending_expansion_if_ready(
           [self EXCEPT !.active_modifiers.shift = FALSE], sink)
    [] key = "Ctrl" ->
         flush_pending_expansion_if_ready(
           [self EXCEPT !.active_modifiers.ctrl = FALSE], sink)
    [] key = "Alt" ->
         flush_pending_expansion_if_ready(
           [self EXCEPT !.active_modifiers.alt = FALSE], sink)
    [] key = "Meta" ->
         flush_pending_expansion_if_ready(
           [self EXCEPT !.active_modifiers.meta = FALSE], sink)
    [] OTHER -> Returned(self, Ok(Unit))

\* A variant that handles injected events like the others
handle_event_unfiltered(self, event, sink) ==
  IF event.kind = "Press"
  THEN IF event.printable.some
       THEN on_printable_char(self, event.printable.value, sink)
       ELSE IF event.special.some
       THEN on_special_key_press(self, event.special.value, sink)
       ELSE Returned(self, Ok(Unit))
  ELSE IF event.special.some
  THEN on_special_key_release(self, event.special.value, sink)
  ELSE Returned(self, Ok(Unit))

\* A variant that swallows an error and starts over from an empty buffer
handle_event_forgiving(self, event, sink) ==
  IF event.is_injected THEN Returned(self, Ok(Unit))
  ELSE LET done == handle_event_unfiltered(self, event, sink)
       IN IF done.ret.ok THEN done
          ELSE Returned([done.self EXCEPT !.typed_buffer = <<>>], Ok(Unit))

handle_event(self, event, sink) ==
  IF event.is_injected THEN Returned(self, Ok(Unit))
  ELSE IF event.kind = "Press"
  THEN IF event.printable.some
       THEN on_printable_char(self, event.printable.value, sink)
       ELSE IF event.special.some
       THEN on_special_key_press(self, event.special.value, sink)
       ELSE Returned(self, Ok(Unit))
  ELSE IF event.special.some
  THEN on_special_key_release(self, event.special.value, sink)
  ELSE Returned(self, Ok(Unit))

(***************************************************************************)
(* The backend (platform/x11_rdev.rs): the listener maps what rdev         *)
(* captures to KeyEvents, reading the `injecting` flag as it does; the     *)
(* sink raises the flag, simulates its keys and lowers the flag.  A raw    *)
(* event is rdev's Event: its type, its key and the name the key produced. *)
(* What the sink simulates is captured by the listener like any other key. *)
(***************************************************************************)
RawEvent(event_type, key, name) ==
  [event_type |-> event_type, key |-> key, name |-> name]

extract_single_char(s) == IF Len(s) = 1 THEN Some(s[1]) ELSE None

map_input_key(key) ==
  CASE key \in {"ShiftLeft", "ShiftRight"} -> "Shift"
    [] key \in {"ControlLeft", "ControlRight"} -> "Ctrl"
    [] key \in {"Alt", "AltGr"} -> "Alt"
    [] key \in {"MetaLeft", "MetaRight"} -> "Meta"
    [] key = "Return" -> "Enter"
    [] key = "LeftArrow" -> "Left"
    [] key = "RightArrow" -> "Right"
    [] key = "UpArrow" -> "Up"
    [] key = "DownArrow" -> "Down"
    [] key \in {"CapsLock", "Tab", "Backspace", "Escape", "Home", "End",
                "Delete", "PageUp", "PageDown", "F1", "F2", "F3", "F4", "F5",
                "F6", "F7", "F8", "F9", "F10", "F11", "F12"} -> key
    [] OTHER -> "Unknown"

map_event(event, is_injected) ==
  CASE event.event_type = "KeyPress" ->
         Some(KeyEvent("Press",
                       IF event.name.some THEN extract_single_char(event.name.value)
                       ELSE None,
                       Some(map_input_key(event.key)), is_injected))
    [] event.event_type = "KeyRelease" ->
         Some(KeyEvent("Release", None, Some(map_input_key(event.key)),
                       is_injected))
    [] OTHER -> None

map_special_key(key) ==
  CASE key = "Enter" -> "Return"
    [] key = "Left" -> "LeftArrow"
    [] key = "Right" -> "RightArrow"
    [] key = "Up" -> "UpArrow"
    [] key = "Down" -> "DownArrow"
    [] OTHER -> key

\* One key pressed and released
tap_key(key) ==
  <<RawEvent("KeyPress", key, None), RawEvent("KeyRelease", key, None)>>

RECURSIVE taps(_, _)
taps(key, n) == IF n = 0 THEN <<>> ELSE tap_key(key) \o taps(key, n - 1)

\* Enigo::text: each character typed as a key of its own
RECURSIVE enigo_text(_)
enigo_text(s) ==
  IF s = <<>> THEN <<>>
  ELSE <<RawEvent("KeyPress", "Unknown", Some(<<s[1]>>)),
         RawEvent("KeyRelease", "Unknown", None)>> \o enigo_text(SubSeq(s, 2, Len(s)))

simulate(action) ==
  CASE action.tag = "Text" -> enigo_text(action.text)
    [] action.tag = "Key" -> tap_key(map_special_key(action.key))
    [] action.tag = "SleepMs" -> <<>>
    [] action.tag = "MoveCaret" ->
         IF action.amount < 0 THEN taps("LeftArrow", 0 - action.amount)
         ELSE taps("RightArrow", action.amount)

RECURSIVE simulate_all(_)
simulate_all(actions) ==
  IF actions = <<>> THEN <<>>
  ELSE simulate(actions[1]) \o simulate_all(SubSeq(actions, 2, Len(actions)))

\* The backend: its flag, and the keys it has simulated
X11RdevBackend(on, keys) == [injecting |-> on, simulated |-> keys]

\* <X11RdevBackend as OutputSink>::send_backspaces and send_actions.  When
\* enigo refuses, it refuses the first key, and the `?` leaves the method
\* before the flag is lowered.
X11RdevBackend_send_backspaces(self, count, ok) ==
  LET raised == [self EXCEPT !.injecting = TRUE]
  IN IF ok /\ count >= 0
     THEN [raised EXCEPT !.simulated = @ \o taps("Backspace", count),
                         !.injecting = FALSE]
     ELSE raised

X11RdevBackend_send_actions(self, actions, ok) ==
  LET raised == [self EXCEPT !.injecting = TRUE]
  IN IF ok
     THEN [raised EXCEPT !.simulated = @ \o simulate_all(actions),
                         !.injecting = FALSE]
     ELSE raised

\* The backend after the calls the engine made on it
serve(self, call) ==
  IF call.call = "send_backspaces"
  THEN X11RdevBackend_send_backspaces(self, call.count, call.ok)
  ELSE X11RdevBackend_send_actions(self, call.actions, call.ok)

RECURSIVE serve_all(_, _)
serve_all(self, calls) ==
  IF calls = <<>> THEN self
  ELSE serve_all(serve(self, calls[1]), SubSeq(calls, 2, Len(calls)))

(***************************************************************************)
(* The inputs: characters typed, keys pressed, rules and configurations.   *)
(***************************************************************************)
MaxBuf == 2
MaxRules == 2
MaxHeld == 2

\* ";" is a default boundary character and "g" is not; the triggers are those
\* of the engine's tests
Chars == {";", "g"}

Modifiers == {"Shift", "Ctrl", "Alt", "Meta"}

\* Escape stands for every key that on_special_key_press sends to its `_` arm.
\* Ctrl stands for Alt, which the engine treats alike and which is pressed
\* and released in SpecErrors.
PressKeys ==
  (Modifiers \ {"Alt"}) \cup {"Enter", "Tab", "Backspace", "Escape", "CapsLock"}

\* Enter stands for every key that on_special_key_release sends to its `_` arm
ReleaseKeys == (Modifiers \ {"Alt"}) \cup {"Enter"}

\* press_char, press_special and release_special of the engine's tests
press_char(c) == KeyEvent("Press", Some(c), None, FALSE)
press_special(key) == KeyEvent("Press", None, Some(key), FALSE)
release_special(key) == KeyEvent("Release", None, Some(key), FALSE)

injected(event) == [event EXCEPT !.is_injected = TRUE]

GenuineEvents ==
  {press_char(c) : c \in Chars}
    \cup {press_special(k) : k \in PressKeys}
    \cup {release_special(k) : k \in ReleaseKeys}

\* What the sink's own output comes back as: a character, a key tap
InjectedEvents ==
  {injected(press_char("g")), injected(press_special("Backspace")),
   injected(release_special("Shift"))}

Events == GenuineEvents \cup InjectedEvents

\* What the sink answers to send_backspaces and to send_actions
SinkOk == [backspaces |-> TRUE, actions |-> TRUE]

SinkOutcomes ==
  { SinkOk,
    [backspaces |-> FALSE, actions |-> TRUE],
    [backspaces |-> TRUE, actions |-> FALSE] }

Globals == (<<"g">> :> <<"y">>)

RulePool ==
  { ExpansionRule(<<";", "g">>, <<"h", "e", "l", "l", "o">>),
    ExpansionRule(<<"g">>, <<"{", "{", "K", "E", "Y", ":", "T", "A", "B", "}", "}">>) }

RECURSIVE SeqsUpTo(_, _)
SeqsUpTo(S, n) ==
  IF n = 0 THEN {<<>>}
  ELSE LET shorter == SeqsUpTo(S, n - 1)
       IN shorter \cup {Append(q, x) : q \in shorter, x \in S}

AppConfig(expansions, match_behavior, chars) ==
  [expansions |-> expansions, snippets |-> <<>>, globals |-> Globals,
   match_behavior |-> match_behavior, boundary_chars |-> chars]

ConfigsOver(pool) ==
  { cfg \in { AppConfig(rules, mode, chars) :
                rules \in SeqsUpTo(pool, MaxRules),
                mode \in {"Immediate", "Boundary"},
                chars \in {None, Some(<<"g">>)} } :
      validate(cfg) }

\* The configurations of the engine: the rules of the pool in every order, that
\* pass AppConfig::validate; the boundary characters are varied in Boundary
\* mode only, the one that reads them
Configs ==
  { cfg \in ConfigsOver(RulePool) :
      /\ Len(cfg.expansions) = Cardinality(RulePool)
      /\ cfg.match_behavior = "Immediate" => ~cfg.boundary_chars.some }

(***************************************************************************)
(* The state: the engine's fields, and the history of the operations       *)
(* handled: for each, the event, the engine's buffer, modifiers and        *)
(* pending slot before it, what it returned, the calls it made on the sink *)
(* and what it wrote to stderr.  Spec keeps the last operation only.       *)
(* `interim` says that a printable character or Backspace was pressed      *)
(* since the pending expansion was stored.  Around the engine: the         *)
(* backend's `injecting` flag, the raw events captured and not yet given   *)
(* to the listen callback, each with a note saying whether the sink        *)
(* simulated it, and where the listener thread and the config watcher      *)
(* thread stand.                                                           *)
(***************************************************************************)
VARIABLES config, typed_buffer, max_trigger_chars, active_modifiers,
          pending_expansion, history, interim,
          injecting, captured, listener, watcher,
          file, lockfile, instances

vars == <<config, typed_buffer, max_trigger_chars, active_modifiers,
          pending_expansion, history, interim,
          injecting, captured, listener, watcher,
          file, lockfile, instances>>

\* What lies outside the process: the configuration file, the path of the
\* instance lock, and the processes that try for the lock
Outside == <<file, lockfile, instances>>

Around == <<injecting, captured, listener, watcher, file, lockfile, instances>>

\* The listener between two events, the watcher between two polls
Listening == [pc |-> "listening", event |-> None, synthetic |-> FALSE]

Sleeping(last_seen) == [pc |-> "sleeping", last_seen |-> last_seen, loaded |-> None]

\* The engine on its own: nothing captured, no thread at work
\* The file as the watcher last saw it, the lock path free, no process
\* trying for it
Settled ==
  /\ file = [content |-> None, edits |-> 0]
  /\ lockfile = [path |-> None, listening |-> {}]
  /\ instances = <<>>

Alone ==
  /\ injecting = FALSE
  /\ captured = <<>>
  /\ listener = Listening
  /\ watcher = Sleeping(None)
  /\ Settled

\* The engine as it stands, its sink log and stderr started afresh
Engine ==
  [config |-> config, output |-> <<>>, stderr |-> <<>>,
   typed_buffer |-> typed_buffer,
   max_trigger_chars |-> max_trigger_chars,
   active_modifiers |-> active_modifiers,
   pending_expansion |-> pending_expansion]

Becomes(self) ==
  /\ config' = self.config
  /\ typed_buffer' = self.typed_buffer
  /\ max_trigger_chars' = self.max_trigger_chars
  /\ active_modifiers' = self.active_modifiers
  /\ pending_expansion' = self.pending_expansion

Before ==
  [config |-> config, typed_buffer |-> typed_buffer,
   max_trigger_chars |-> max_trigger_chars,
   active_modifiers |-> active_modifiers,
   pending_expansion |-> pending_expansion]

Handled(event, done) ==
  [op |-> "handle_event", event |-> event, before |-> Before,
   ret |-> done.ret, calls |-> done.self.output, stderr |-> done.self.stderr]

Reloaded == [op |-> "reload_config", before |-> Before]

\* The call stored a pending expansion: it detected a trigger, made no call on
\* the sink and returned Ok
Stored(done) ==
  /\ done.self.stderr # <<>>
  /\ done.self.output = <<>>
  /\ done.ret.ok

Typing(event) ==
  /\ ~event.is_injected
  /\ event.kind = "Press"
  /\ event.printable.some \/ event.special = Some("Backspace")

Init ==
  /\ \E cfg \in Configs :
       /\ config = new(cfg).config
       /\ typed_buffer = new(cfg).typed_buffer
       /\ max_trigger_chars = new(cfg).max_trigger_chars
       /\ active_modifiers = new(cfg).active_modifiers
       /\ pending_expansion = new(cfg).pending_expansion
  /\ history = <<>>
  /\ interim = FALSE
  /\ Alone

flag(b) == IF b THEN 1 ELSE 0

held ==
  flag(active_modifiers.shift) + flag(active_modifiers.ctrl)
    + flag(active_modifiers.alt) + flag(active_modifiers.meta)

\* The bounds on what the user does: the characters typed in a row, the
\* modifiers held at once
Allowed(event) ==
  \/ event.is_injected
  \/ event.kind = "Release"
  \/ /\ event.printable.some
     /\ Len(typed_buffer) < MaxBuf
  \/ /\ ~event.printable.some
     /\ (event.special.value \in Modifiers => held < MaxHeld)

\* What the step leaves behind
Commit(event, done) ==
  /\ Becomes(done.self)
  /\ history' = <<Handled(event, done)>>
  /\ interim' = IF Stored(done) THEN FALSE
                ELSE IF pending_expansion.some THEN interim \/ Typing(event)
                ELSE FALSE
  /\ UNCHANGED Around

\* One call of Engine::handle_event.  The sink answers each of its two
\* methods with Ok or with an error; which answer matters only when the call
\* reaches the sink.
HandleEvent(event) ==
  /\ Allowed(event)
  /\ \E served \in {handle_event(Engine, event, SinkOk)} :
       \/ Commit(event, served)
       \/ /\ served.self.output # <<>>
          /\ \E sink \in SinkOutcomes \ {SinkOk} :
               Commit(event, handle_event(Engine, event, sink))

\* One call of Engine::reload_config with a validated configuration
ReloadConfig(cfg) ==
  /\ Becomes(reload_config(Engine, cfg))
  /\ history' = <<Reloaded>>
  /\ interim' = FALSE
  /\ UNCHANGED Around

Next ==
  \/ \E event \in Events : HandleEvent(event)
  \/ \E cfg \in Configs : ReloadConfig(cfg)

Spec == Init /\ [][Next]_vars

(***************************************************************************)
(* Typing from a fresh engine: any rule set of up to MaxRules rules, one   *)
(* that holds a trigger that is a prefix of another and one whose          *)
(* expansion does not parse, no key but printable characters, and the      *)
(* history kept whole.                                                     *)
(***************************************************************************)
MaxTyped == 2

TypingPool ==
  RulePool \cup
    { ExpansionRule(<<";">>, <<"x", "{", "{", "G", "}", "}">>),
      ExpansionRule(<<"g">>, <<"{", "{">>) }

TypingConfigs ==
  { cfg \in ConfigsOver(TypingPool) : ~cfg.boundary_chars.some }

InitTyping ==
  /\ \E cfg \in TypingConfigs :
       /\ config = new(cfg).config
       /\ typed_buffer = new(cfg).typed_buffer
       /\ max_trigger_chars = new(cfg).max_trigger_chars
       /\ active_modifiers = new(cfg).active_modifiers
       /\ pending_expansion = new(cfg).pending_expansion
  /\ history = <<>>
  /\ interim = FALSE
  /\ Alone

Record(event, done) ==
  /\ Becomes(done.self)
  /\ history' = Append(history, Handled(event, done))
  /\ interim' = interim
  /\ UNCHANGED Around

\* One call of Engine::handle_event with the press of a printable character
TypeChar(c) ==
  /\ Len(history) < MaxTyped
  /\ \E served \in {handle_event(Engine, press_char(c), SinkOk)} :
       \/ Record(press_char(c), served)
       \/ /\ served.self.output # <<>>
          /\ \E sink \in SinkOutcomes \ {SinkOk} :
               Record(press_char(c), handle_event(Engine, press_char(c), sink))

NextTyping == \E c \in Chars : TypeChar(c)

SpecTyping == InitTyping /\ [][NextTyping]_vars

(***************************************************************************)
(* Typing on and on: one rule at a time, so that the longest trigger       *)
(* differs from one configuration to the next, the two characters, Shift   *)
(* and Backspace, a sink that accepts every send, and the buffer as long   *)
(* as the engine lets it grow.  Once an expansion is pending the user      *)
(* types no further character before releasing Shift.  Next to the last    *)
(* operation the history keeps `appended`: the characters appended to the  *)
(* buffer since it was last cleared or popped, as the match check of that  *)
(* operation finds them, the last max_trigger_chars + 1 of them.           *)
(***************************************************************************)
LongConfigs ==
  { AppConfig(<<ExpansionRule(<<";", "g">>, <<"h", "e", "l", "l", "o">>)>>,
              "Immediate", None),
    [AppConfig(<<ExpansionRule(<<"g">>, <<"{", "{", "K", "E", "Y", ":", "T", "A", "B", "}", "}">>)>>,
               "Boundary", None)
       EXCEPT !.globals = (<<"g">> :> <<"z">>)] }

LongEvents ==
  {press_char(c) : c \in Chars}
    \cup {press_special("Shift"), release_special("Shift"),
          press_special("Backspace")}

Starts(cfg) ==
  /\ config = new(cfg).config
  /\ typed_buffer = new(cfg).typed_buffer
  /\ max_trigger_chars = new(cfg).max_trigger_chars
  /\ active_modifiers = new(cfg).active_modifiers
  /\ pending_expansion = new(cfg).pending_expansion

InitLong ==
  /\ \E cfg \in LongConfigs : Starts(cfg)
  /\ history = <<>>
  /\ interim = FALSE
  /\ Alone

LastChars(s, n) == IF Len(s) <= n THEN s ELSE SubSeq(s, Len(s) - n + 1, Len(s))

\* The sink accepted both sends of the last call: execute_expansion went on
\* to clear the buffer
Sent ==
  /\ history[Len(history)].op = "handle_event"
  /\ Len(history[Len(history)].calls) = 2
  /\ history[Len(history)].calls[2].ok

\* The characters appended since the last clear or pop, as the call finds
\* them
Appended ==
  IF history = <<>> \/ Sent THEN <<>> ELSE history[Len(history)].appended

\* ... and as its match check finds them
Follows(event) ==
  IF event.is_injected THEN Appended
  ELSE IF event.kind = "Press" /\ event.printable.some
  THEN LastChars(Append(Appended, event.printable.value), max_trigger_chars + 1)
  ELSE IF event.kind = "Press" /\ event.special = Some("Backspace") THEN <<>>
  ELSE Appended

CommitLong(event, done) ==
  /\ Becomes(done.self)
  /\ history' = <<Handled(event, done) @@ [appended |-> Follows(event)]>>
  /\ interim' = FALSE
  /\ UNCHANGED Around

\* One call of Engine::handle_event, the buffer as long as it may be
HandleLong(event) ==
  /\ event.printable.some => ~pending_expansion.some
  /\ CommitLong(event, handle_event(Engine, event, SinkOk))

ReloadLong(cfg) ==
  /\ Becomes(reload_config(Engine, cfg))
  /\ history' = <<Reloaded @@ [config |-> cfg, appended |-> <<>>]>>
  /\ interim' = FALSE
  /\ UNCHANGED Around

NextLong ==
  \/ \E event \in LongEvents : HandleLong(event)
  \/ \E cfg \in LongConfigs : ReloadLong(cfg)

SpecLong == InitLong /\ [][NextLong]_vars

(***************************************************************************)
(* Rules that fail: a rule set of two rules, one whose expansion is an      *)
(* unterminated macro or names an unknown global, in both orders and both  *)
(* modes, typed into with the four modifiers, Enter and Backspace, over a  *)
(* sink that may fail, and reloaded.                                       *)
(***************************************************************************)
ErrorPool ==
  { ExpansionRule(<<";", "g">>, <<"h", "e", "l", "l", "o">>),
    ExpansionRule(<<"g">>, <<"{", "{">>),
    ExpansionRule(<<"g">>, <<"{", "{", "X", "}", "}">>) }

ErrorConfigs ==
  { cfg \in ConfigsOver(ErrorPool) :
      /\ Len(cfg.expansions) = 2
      /\ ~cfg.boundary_chars.some }

ErrorEvents ==
  {press_char(c) : c \in Chars}
    \cup {press_special(k) : k \in Modifiers \cup {"Enter", "Backspace"}}
    \cup {release_special(k) : k \in Modifiers}

InitErrors ==
  /\ \E cfg \in ErrorConfigs : Starts(cfg)
  /\ history = <<>>
  /\ interim = FALSE
  /\ Alone

NextErrors ==
  \/ \E event \in ErrorEvents : HandleEvent(event)
  \/ \E cfg \in ErrorConfigs : ReloadConfig(cfg)

SpecErrors == InitErrors /\ [][NextErrors]_vars

(***************************************************************************)
(* The program running (main.rs): the listener thread takes the captured   *)
(* events one at a time, maps each with the flag as it then stands, locks  *)
(* the engine and calls handle_event, whose sink is the backend; the       *)
(* watcher thread loads a changed configuration, locks the engine and      *)
(* calls reload_config.  The keys the sink simulates join the captured     *)
(* events behind those already there.                                      *)
(***************************************************************************)
MaxCaptured == 1

RunConfigs == LongConfigs

\* What the user does: g, ;, Shift down, Shift up
Strokes ==
  { RawEvent("KeyPress", "KeyG", Some(<<"g">>)),
    RawEvent("KeyPress", "SemiColon", Some(<<";">>)),
    RawEvent("KeyPress", "ShiftLeft", None),
    RawEvent("KeyRelease", "ShiftLeft", None) }

Captured(event, synthetic) == [event |-> event, synthetic |-> synthetic]

RECURSIVE Simulated(_)
Simulated(events) ==
  IF events = <<>> THEN <<>>
  ELSE <<Captured(events[1], TRUE)>> \o Simulated(SubSeq(events, 2, Len(events)))

InitRun ==
  /\ \E cfg \in RunConfigs :
       /\ Starts(cfg)
       /\ watcher = Sleeping(Some(cfg))
  /\ history = <<>>
  /\ interim = FALSE
  /\ injecting = FALSE
  /\ captured = <<>>
  /\ listener = Listening
  /\ Settled

\* A variant that takes the engine whoever holds it
lock_unguarded(other) == TRUE

\* Mutex::lock on the engine: the other thread does not hold it
can_lock(other) == other.pc # "locked"

\* The user presses or releases a key
KeyStroke(raw) ==
  /\ Len(captured) < MaxCaptured
  /\ raw.name.some => Len(typed_buffer) < MaxBuf
  /\ captured' = Append(captured, Captured(raw, FALSE))
  /\ UNCHANGED <<config, typed_buffer, max_trigger_chars, active_modifiers,
                 pending_expansion, history, interim, injecting, listener,
                 watcher>>
  /\ UNCHANGED Outside

\* The closure given to rdev::listen: map_event with the flag loaded
ListenerMaps ==
  /\ listener.pc = "listening"
  /\ captured # <<>>
  /\ LET mapped == map_event(captured[1].event, injecting)
     IN listener' = IF mapped.some
                    THEN [pc |-> "mapped", event |-> mapped,
                          synthetic |-> captured[1].synthetic]
                    ELSE Listening
  /\ captured' = Tail(captured)
  /\ UNCHANGED <<config, typed_buffer, max_trigger_chars, active_modifiers,
                 pending_expansion, history, interim, injecting, watcher>>
  /\ UNCHANGED Outside

\* on_event: engine.lock()
ListenerLocks ==
  /\ listener.pc = "mapped"
  /\ can_lock(watcher)
  /\ listener' = [listener EXCEPT !.pc = "locked"]
  /\ UNCHANGED <<config, typed_buffer, max_trigger_chars, active_modifiers,
                 pending_expansion, history, interim, injecting, captured,
                 watcher>>
  /\ UNCHANGED Outside

Answered(done) ==
  LET backend == serve_all(X11RdevBackend(injecting, <<>>), done.self.output)
  IN /\ Becomes(done.self)
     /\ history' = <<Handled(listener.event.value, done)
                       @@ [synthetic |-> listener.synthetic]>>
     /\ injecting' = backend.injecting
     /\ captured' = captured \o Simulated(backend.simulated)
     /\ listener' = Listening
     /\ UNCHANGED <<interim, watcher>>
     /\ UNCHANGED Outside

\* on_event: guard.handle_event(event), and the guard dropped
ListenerHandles ==
  /\ listener.pc = "locked"
  /\ \E served \in {handle_event(Engine, listener.event.value, SinkOk)} :
       \/ Answered(served)
       \/ /\ served.self.output # <<>>
          /\ \E sink \in SinkOutcomes \ {SinkOk} :
               Answered(handle_event(Engine, listener.event.value, sink))

\* start_config_watcher: the file has changed, and loads and validates
WatcherLoads(cfg) ==
  /\ watcher.pc = "sleeping"
  /\ Some(cfg) # watcher.last_seen
  /\ validate(cfg)
  /\ watcher' = [watcher EXCEPT !.pc = "loaded", !.loaded = Some(cfg)]
  /\ UNCHANGED <<config, typed_buffer, max_trigger_chars, active_modifiers,
                 pending_expansion, history, interim, injecting, captured,
                 listener>>
  /\ UNCHANGED Outside

\* start_config_watcher: engine.lock()
WatcherLocks ==
  /\ watcher.pc = "loaded"
  /\ can_lock(listener)
  /\ watcher' = [watcher EXCEPT !.pc = "locked"]
  /\ UNCHANGED <<config, typed_buffer, max_trigger_chars, active_modifiers,
                 pending_expansion, history, interim, injecting, captured,
                 listener>>
  /\ UNCHANGED Outside

\* start_config_watcher: guard.reload_config(loaded.config), and the guard
\* dropped
WatcherReloads ==
  /\ watcher.pc = "locked"
  /\ Becomes(reload_config(Engine, watcher.loaded.value))
  /\ history' = <<Reloaded>>
  /\ watcher' = Sleeping(watcher.loaded)
  /\ UNCHANGED <<interim, injecting, captured, listener>>
  /\ UNCHANGED Outside

NextRun ==
  \/ \E raw \in Strokes : KeyStroke(raw)
  \/ ListenerMaps
  \/ ListenerLocks
  \/ ListenerHandles
  \/ \E cfg \in RunConfigs : WatcherLoads(cfg)
  \/ WatcherLocks
  \/ WatcherReloads

SpecRun == InitRun /\ [][NextRun]_vars

(***************************************************************************)
(* Every key: the engine of either mode, typed into and pressed on with    *)
(* each key of SpecialInputKey, Shift standing for the four modifiers,     *)
(* which Spec and SpecErrors press.                                        *)
(***************************************************************************)
KeyEvents ==
  {press_char(c) : c \in Chars}
    \cup {press_special(k) : k \in SpecialInputKey \ {"Ctrl", "Alt", "Meta"}}
    \cup {release_special("Shift")}

InitKeys ==
  /\ \E cfg \in LongConfigs : Starts(cfg)
  /\ history = <<>>
  /\ interim = FALSE
  /\ Alone

NextKeys == \E event \in KeyEvents : HandleEvent(event)

SpecKeys == InitKeys /\ [][NextKeys]_vars

(***************************************************************************)
(* Matches under a held modifier: two rules, the longer listed first, in   *)
(* either mode, typed into while Shift or Ctrl is held.  Each entry of the *)
(* history also says which pending expansion was stored last (`latest`)    *)
(* and what the ones that a later match has overwritten since the slot was *)
(* last empty would have sent (`replaced`).                                *)
(***************************************************************************)
HeldConfigs ==
  { cfg \in Configs :
      /\ cfg.expansions[1].trigger = <<";", "g">>
      /\ ~cfg.boundary_chars.some }

HeldEvents ==
  {press_char(c) : c \in Chars}
    \cup {press_special(k) : k \in {"Shift", "Ctrl", "Backspace", "Enter"}}
    \cup {release_special(k) : k \in {"Shift", "Ctrl"}}

InitHeld ==
  /\ \E cfg \in HeldConfigs : Starts(cfg)
  /\ history = <<>>
  /\ interim = FALSE
  /\ Alone

Latest == IF history = <<>> THEN None ELSE history[Len(history)].latest

Replaced == IF history = <<>> THEN {} ELSE history[Len(history)].replaced

Sends(pending) == [backspaces |-> pending.backspaces, actions |-> pending.actions]

Overwrites(done) ==
  IF ~Stored(done) THEN Replaced
  ELSE IF pending_expansion.some
  THEN Replaced \cup {Sends(pending_expansion.value)}
  ELSE {}

CommitHeld(event, done) ==
  /\ Becomes(done.self)
  /\ history' =
       << Handled(event, done)
            @@ [latest |-> IF Stored(done) THEN done.self.pending_expansion
                           ELSE Latest,
                replaced |-> Overwrites(done)] >>
  /\ UNCHANGED interim
  /\ UNCHANGED Around

HandleHeld(event) ==
  /\ Allowed(event)
  /\ \E served \in {handle_event(Engine, event, SinkOk)} :
       \/ CommitHeld(event, served)
       \/ /\ served.self.output # <<>>
          /\ \E sink \in SinkOutcomes \ {SinkOk} :
               CommitHeld(event, handle_event(Engine, event, sink))

NextHeld == \E event \in HeldEvents : HandleHeld(event)

SpecHeld == InitHeld /\ [][NextHeld]_vars

(***************************************************************************)
(* The macro language on its own: render_template_macros,                  *)
(* parse_expansion_actions and parse_action_macros_only applied to texts   *)
(* put together from pieces, over global tables without and with cycles.   *)
(* A text that was rendered may be rendered again.  The engine stays as it *)
(* was built.                                                              *)
(***************************************************************************)
MaxPieces == 2

Pieces ==
  { <<"x">>,
    <<"{", "{", "A", "}", "}">>,
    <<"{", "{", " ", "b", " ", "}", "}">>,
    <<"{", "{", "C", "}", "}">>,
    <<"{", "{", "d", "a", "t", "e", "}", "}">>,
    <<"{", "{", "D", "A", "T", "E", ":", "x", "}", "}">>,
    <<"{", "{", "A", ":", "x", "}", "}">>,
    <<"{", "{", "F", "O", "O", "}", "}">>,
    <<"{", "{", "K", "E", "Y", ":", "E", "N", "T", "E", "R", "}", "}">>,
    <<"{", "{", " ", "s", "l", "e", "e", "p", "_", "m", "s", " ", ":", " ", "5", " ", "}", "}">>,
    <<"{", "{", "E", "M", "O", "J", "I", ":", "r", "o", "c", "k", "e", "t", "}", "}">>,
    <<"{", "{", "c", "m", "d", ":", "e", "c", "h", "o", " ", "h", "i", "}", "}">>,
    <<"{", "D", "A", "T", "E", "}", "}">>,
    <<"{", "{", "K", "E", "Y">> }

RECURSIVE Joined(_)
Joined(n) ==
  IF n = 0 THEN {<<>>}
  ELSE Joined(n - 1) \cup {t \o piece : t \in Joined(n - 1), piece \in Pieces}

Inputs == Joined(MaxPieces)

NoGlobals == <<>>

Tables ==
  { NoGlobals,
    (<<"A">> :> <<"{", "{", "b", "}", "}">>)
      @@ (<<"B">> :> <<"y", "{", "{", "K", "E", "Y", ":", "T", "A", "B", "}", "}">>),
    (<<"A">> :> <<"{", "{", "B", "}", "}">>)
      @@ (<<"b">> :> <<"{", "{", "a", "}", "}">>),
    (<<"A">> :> <<"{", "{", "B", "}", "}">>)
      @@ (<<"B">> :> <<"{", "{", "A", "}", "}">>)
      @@ (<<"C">> :> <<"{", "{", "A", "}", "}">>),
    (<<"A">> :> <<"{", "{", "A", "}", "}">>),
    (<<"A">> :> <<"x", "{">>),
    (<<"A">> :> <<"y", "{", "{", "K", "E", "Y">>) }

MacroConfigs ==
  { [AppConfig(<<ExpansionRule(<<";", "g">>, <<"h", "e", "l", "l", "o">>)>>, "Immediate", None)
       EXCEPT !.globals = globals] : globals \in Tables }

\* A text at hand, nothing applied to it yet
Drawn(input) == [op |-> "input", input |-> input]

InitMacros ==
  /\ \E cfg \in MacroConfigs : Starts(cfg)
  /\ \E input \in Inputs : history = <<Drawn(input)>>
  /\ interim = FALSE
  /\ Alone

Rendered(input, globals, again) ==
  [op |-> "render_template_macros", input |-> input, globals |-> globals,
   again |-> again, ret |-> render_template_macros(input, globals)]

Answers(entry) ==
  /\ history' = <<entry>>
  /\ UNCHANGED <<config, typed_buffer, max_trigger_chars, active_modifiers,
                 pending_expansion, interim>>
  /\ UNCHANGED Around

\* render_template_macros(input, globals) on the text at hand
Render ==
  /\ history[1].op = "input"
  /\ Answers(Rendered(history[1].input, config.globals, FALSE))

\* render_template_macros on what the last call rendered, with its table
RenderAgain ==
  /\ history[1].op = "render_template_macros"
  /\ ~history[1].again
  /\ history[1].ret.ok
  /\ Answers(Rendered(history[1].ret.value, config.globals, TRUE))

\* parse_expansion_actions(input, globals) on the text at hand; templated is
\* what its first pass hands to the second
Parse ==
  /\ history[1].op = "input"
  /\ Answers([op |-> "parse_expansion_actions", input |-> history[1].input,
              globals |-> config.globals,
              templated |-> render_template_macros(history[1].input, config.globals),
              ret |-> parse_expansion_actions(history[1].input, config.globals)])

\* parse_action_macros_only(input) on the text at hand
ParseOnly ==
  /\ history[1].op = "input"
  /\ Answers([op |-> "parse_action_macros_only", input |-> history[1].input,
              ret |-> parse_action_macros_only(history[1].input)])

NextMacros ==
  \/ Render
  \/ RenderAgain
  \/ Parse
  \/ ParseOnly

SpecMacros == InitMacros /\ [][NextMacros]_vars

(***************************************************************************)
(* Boundary mode, key after key: the characters, Enter and Tab pressed on  *)
(* an engine in Boundary mode, no modifier held, the sink accepting every  *)
(* send.  The history keeps every press.                                   *)
(***************************************************************************)
MaxKeys == 4

BoundaryConfigs == { cfg \in Configs : cfg.match_behavior = "Boundary" }

BoundaryEvents ==
  {press_char(c) : c \in Chars} \cup {press_special(k) : k \in {"Enter", "Tab"}}

InitBoundary ==
  /\ \E cfg \in BoundaryConfigs : Starts(cfg)
  /\ history = <<>>
  /\ interim = FALSE
  /\ Alone

\* One call of Engine::handle_event with a press
PressKey(event) ==
  /\ Len(history) < MaxKeys
  /\ Record(event, handle_event(Engine, event, SinkOk))

NextBoundary == \E event \in BoundaryEvents : PressKey(event)

SpecBoundary == InitBoundary /\ [][NextBoundary]_vars

(***************************************************************************)
(* The instance lock (core/instance_lock.rs).  The lock path in the file   *)
(* system is free or names a socket, and a socket is known by the process  *)
(* that bound it; `listening` holds the sockets whose listener is open.  A *)
(* socket file whose listener is closed is a stale file.  The file system  *)
(* calls answer as the operating system does: connect succeeds on a path   *)
(* whose socket listens, remove_file fails on a free path, bind fails on a *)
(* path that exists.                                                       *)
(***************************************************************************)
\* Path::exists
path_exists(fs) == fs.path.some

\* UnixStream::connect(&path).is_ok()
connect(fs) == fs.path.some /\ fs.path.value \in fs.listening

\* fs::remove_file
remove_file(fs) ==
  IF fs.path.some THEN Returned([fs EXCEPT !.path = None], Ok(Unit))
  ELSE Returned(fs, Err([kind |-> "NotFound"]))

\* UnixListener::bind by process id
bind(fs, id) ==
  IF fs.path.some THEN Returned(fs, Err([kind |-> "AddrInUse"]))
  ELSE Returned([path |-> Some(id), listening |-> fs.listening \cup {id}], Ok(id))

InstanceLock(listener_of) == [_listener |-> listener_of]

AlreadyRunning == Err([kind |-> "another slykey instance is already running"])

RemoveFailed == Err([kind |-> "failed to remove stale slykey instance lock file"])

BindFailed == Err([kind |-> "failed to create slykey instance lock socket"])

\* A variant that removes whatever file it finds, without trying to connect
acquire_without_probe(fs, id) ==
  LET removed == IF path_exists(fs) THEN remove_file(fs) ELSE Returned(fs, Ok(Unit))
      bound == bind(removed.self, id)
  IN IF ~removed.ret.ok THEN Returned(fs, RemoveFailed)
     ELSE IF ~bound.ret.ok THEN Returned(removed.self, BindFailed)
     ELSE Returned(bound.self, Ok(InstanceLock(id)))

\* acquire_from_path, run from its first line to its return with nothing
\* else touching the path
acquire_from_path(fs, id) ==
  IF path_exists(fs) /\ connect(fs) THEN Returned(fs, AlreadyRunning)
  ELSE LET removed == IF path_exists(fs) THEN remove_file(fs)
                      ELSE Returned(fs, Ok(Unit))
           bound == bind(removed.self, id)
       IN IF ~removed.ret.ok THEN Returned(fs, RemoveFailed)
          ELSE IF ~bound.ret.ok THEN Returned(removed.self, BindFailed)
          ELSE Returned(bound.self, Ok(InstanceLock(id)))

\* impl Drop for InstanceLock: remove_file, its result ignored; the listener
\* is closed when the fields are dropped
drop(fs, lock) ==
  [remove_file(fs).self EXCEPT !.listening = @ \ {lock._listener}]

(***************************************************************************)
(* Processes that take and give back the lock one call at a time: a call   *)
(* of acquire_from_path or a drop runs to its end before another begins.   *)
(* A process that is killed closes its listener and leaves the file.       *)
(***************************************************************************)
MaxProcs == 4

Procs == 1..MaxProcs

FreePath == [path |-> None, listening |-> {}]

\* The file a process left that died before Procs started
StalePath == [path |-> Some(0), listening |-> {}]

Idle == [pc |-> "idle", lock |-> None]

Holding(lock) == [pc |-> "holding", lock |-> Some(lock)]

Failed == [pc |-> "failed", lock |-> None]

Holders == {p \in DOMAIN instances : instances[p].pc = "holding"}

InitLock ==
  /\ \E cfg \in MacroConfigs : cfg.globals = NoGlobals /\ Starts(cfg)
  /\ history = <<>>
  /\ interim = FALSE
  /\ injecting = FALSE
  /\ captured = <<>>
  /\ listener = Listening
  /\ watcher = Sleeping(None)
  /\ file = [content |-> None, edits |-> 0]
  /\ lockfile \in {FreePath, StalePath}
  /\ instances = [p \in Procs |-> Idle]

Engineless ==
  UNCHANGED <<config, typed_buffer, max_trigger_chars, active_modifiers,
              pending_expansion, interim, injecting, captured, listener,
              watcher, file>>

\* InstanceLock::acquire in process p
Acquire(p) ==
  /\ instances[p].pc \in {"idle", "failed"}
  /\ LET done == acquire_from_path(lockfile, p)
     IN /\ lockfile' = done.self
        /\ instances' = [instances EXCEPT
             ![p] = IF done.ret.ok THEN Holding(done.ret.value) ELSE Failed]
        /\ history' = <<[op |-> "acquire_from_path", proc |-> p, before |-> lockfile,
                         holders |-> Holders, ret |-> done.ret]>>
  /\ Engineless

\* The InstanceLock of process p goes out of scope
Drop(p) ==
  /\ instances[p].pc = "holding"
  /\ lockfile' = drop(lockfile, instances[p].lock.value)
  /\ instances' = [instances EXCEPT ![p] = Idle]
  /\ history' = <<[op |-> "drop", proc |-> p, before |-> lockfile, holders |-> Holders]>>
  /\ Engineless

\* Process p is killed: no destructor runs, the system closes its listener
Kill(p) ==
  /\ instances[p].pc = "holding"
  /\ lockfile' = [lockfile EXCEPT !.listening = @ \ {p}]
  /\ instances' = [instances EXCEPT ![p] = Idle]
  /\ history' = <<[op |-> "kill", proc |-> p, before |-> lockfile, holders |-> Holders]>>
  /\ Engineless

NextLock ==
  \/ \E p \in Procs : Acquire(p)
  \/ \E p \in Procs : Drop(p)
  \/ \E p \in Procs : Kill(p)

SpecLock == InitLock /\ [][NextLock]_vars

(***************************************************************************)
(* Processes that race for the lock: each call that acquire_from_path and  *)
(* drop make on the file system is a step of its own, and the steps of the *)
(* processes interleave.  A process stands at "exists" when path.exists()  *)
(* has answered true, at "stale" when connect was refused, at "absent"     *)
(* when it is about to bind, and at "dropping" between the remove_file of  *)
(* drop and the closing of its listener.  A process that failed may be     *)
(* started again.                                                          *)
(***************************************************************************)
MaxRacers == 2

Racers == 1..MaxRacers

At(pc) == [pc |-> pc, lock |-> None]

InitRace ==
  /\ \E cfg \in MacroConfigs : cfg.globals = NoGlobals /\ Starts(cfg)
  /\ history = <<>>
  /\ interim = FALSE
  /\ injecting = FALSE
  /\ captured = <<>>
  /\ listener = Listening
  /\ watcher = Sleeping(None)
  /\ file = [content |-> None, edits |-> 0]
  /\ lockfile \in {FreePath, StalePath}
  /\ instances = [p \in Racers |-> Idle]

Step(op, p) == [op |-> op, proc |-> p, before |-> lockfile, holders |-> Holders]

\* if path.exists()
ChecksPath(p) ==
  /\ instances[p].pc \in {"idle", "failed"}
  /\ instances' = [instances EXCEPT
       ![p] = IF path_exists(lockfile) THEN At("exists") ELSE At("absent")]
  /\ history' = <<Step("exists", p)>>
  /\ UNCHANGED lockfile
  /\ Engineless

\* if UnixStream::connect(&path).is_ok() { bail!(..) }
Connects(p) ==
  /\ instances[p].pc = "exists"
  /\ instances' = [instances EXCEPT
       ![p] = IF connect(lockfile) THEN Failed ELSE At("stale")]
  /\ history' = <<Step("connect", p)>>
  /\ UNCHANGED lockfile
  /\ Engineless

\* fs::remove_file(&path).with_context(..)?
Removes(p) ==
  /\ instances[p].pc = "stale"
  /\ LET removed == remove_file(lockfile)
     IN /\ lockfile' = removed.self
        /\ instances' = [instances EXCEPT
             ![p] = IF removed.ret.ok THEN At("absent") ELSE Failed]
  /\ history' = <<Step("remove_file", p)>>
  /\ Engineless

\* UnixListener::bind(&path).with_context(..)?
Binds(p) ==
  /\ instances[p].pc = "absent"
  /\ LET bound == bind(lockfile, p)
     IN /\ lockfile' = bound.self
        /\ instances' = [instances EXCEPT
             ![p] = IF bound.ret.ok THEN Holding(InstanceLock(p)) ELSE Failed]
  /\ history' = <<Step("bind", p)>>
  /\ Engineless

\* drop: let _ = fs::remove_file(&self.path)
DropRemoves(p) ==
  /\ instances[p].pc = "holding"
  /\ lockfile' = remove_file(lockfile).self
  /\ instances' = [instances EXCEPT ![p].pc = "dropping"]
  /\ history' = <<Step("drop", p)>>
  /\ Engineless

\* drop: the listener is closed with the struct's fields
DropCloses(p) ==
  /\ instances[p].pc = "dropping"
  /\ lockfile' = [lockfile EXCEPT !.listening = @ \ {instances[p].lock.value._listener}]
  /\ instances' = [instances EXCEPT ![p] = Idle]
  /\ history' = <<Step("close", p)>>
  /\ Engineless

NextRace ==
  \/ \E p \in Racers : ChecksPath(p)
  \/ \E p \in Racers : Connects(p)
  \/ \E p \in Racers : Removes(p)
  \/ \E p \in Racers : Binds(p)
  \/ \E p \in Racers : DropRemoves(p)
  \/ \E p \in Racers : DropCloses(p)

SpecRace == InitRace /\ [][NextRace]_vars

(***************************************************************************)
(* The configuration file and its watcher (main.rs, config.rs).  The text  *)
(* of the file is known by what serde_yaml makes of it: the configuration  *)
(* it parses to, or nothing when it is not a YAML configuration.  The file *)
(* is missing or holds a text; `edits` counts the times it was written.    *)
(* The watcher stands at "starting" before its first read, at "sleeping"   *)
(* in thread::sleep, at "changed" when the text it read differs from the   *)
(* one it saw last.  Every configuration has `watch` on.                   *)
(***************************************************************************)
Yaml(cfg) == [kind |-> "yaml", parsed |-> Some(cfg)]

Garbage == [kind |-> "garbage", parsed |-> None]

\* String::default()
EmptyText == [kind |-> "empty", parsed |-> None]

\* std::fs::read_to_string
read_to_string(fs) ==
  IF fs.content.some THEN Ok(fs.content.value) ELSE Err([kind |-> "NotFound"])

\* AppConfig::load: read_to_string, then serde_yaml::from_str
load(fs) ==
  LET raw == read_to_string(fs)
  IN IF ~raw.ok THEN Err([kind |-> "failed to read config"])
     ELSE IF ~raw.value.parsed.some THEN Err([kind |-> "failed to parse YAML config"])
     ELSE Ok(raw.value.parsed.value)

\* run of main.rs, up to Engine::new: the configuration is loaded, validated and given
\* to the engine
main_run(fs) ==
  LET loaded == load(fs)
  IN IF ~loaded.ok THEN loaded
     ELSE IF ~validate(loaded.value) THEN Err([kind |-> "validate"])
     ELSE Ok(new(loaded.value))

\* A variant that gives the engine whatever has loaded
changed_config_unvalidated(fs) ==
  LET loaded == load(fs)
  IN IF loaded.ok THEN [install |-> Some(loaded.value), stderr |-> <<>>]
     ELSE [install |-> None, stderr |-> <<"config changed but reload failed">>]

\* start_config_watcher, the match on AppConfig::load: the configuration to
\* give to reload_config, if any, and what is written to stderr
changed_config(fs) ==
  LET loaded == load(fs)
  IN IF ~loaded.ok
     THEN [install |-> None, stderr |-> <<"config changed but reload failed">>]
     ELSE IF ~validate(loaded.value)
     THEN [install |-> None, stderr |-> <<"config changed but validation failed">>]
     ELSE [install |-> Some(loaded.value), stderr |-> <<>>]

MaxEdits == 3

\* Two configurations that validate, and one that has an empty trigger and
\* the same trigger twice
WatchConfigs ==
  LongConfigs \cup
    { AppConfig(<<ExpansionRule(<<>>, <<"a">>),
                  ExpansionRule(<<";", "g">>, <<"a">>),
                  ExpansionRule(<<";", "g">>, <<"b">>)>>, "Immediate", None) }

FileContents == {None, Some(Garbage)} \cup {Some(Yaml(cfg)) : cfg \in WatchConfigs}

WatchEvents ==
  {press_char(";"), press_char("g"), press_special("Shift"), release_special("Shift")}

Watching(pc, last_seen, current) == [pc |-> pc, last_seen |-> last_seen, current |-> current]

InitWatch ==
  /\ \E content \in FileContents :
       /\ file = [content |-> content, edits |-> 0]
       /\ main_run(file).ok
       /\ Starts(load(file).value)
  /\ history = <<>>
  /\ interim = FALSE
  /\ injecting = FALSE
  /\ captured = <<>>
  /\ listener = Listening
  /\ watcher = Watching("starting", EmptyText, None)
  /\ lockfile = [path |-> None, listening |-> {}]
  /\ instances = <<>>

EngineKept ==
  UNCHANGED <<config, typed_buffer, max_trigger_chars, active_modifiers,
              pending_expansion, interim, injecting, captured, listener,
              lockfile, instances>>

\* The user, an editor or a program writes, replaces or removes the file
FileChanges(content) ==
  /\ file.edits < MaxEdits
  /\ content # file.content
  /\ file' = [content |-> content, edits |-> file.edits + 1]
  /\ UNCHANGED <<history, watcher>>
  /\ EngineKept

\* The listener thread handles a key with the engine locked
Types(event) ==
  /\ event.printable.some => Len(typed_buffer) < MaxBuf
  /\ \E served \in {handle_event(Engine, event, SinkOk)} :
       /\ Becomes(served.self)
       /\ history' = <<Handled(event, served)>>
  /\ UNCHANGED <<interim, injecting, captured, listener, watcher>>
  /\ UNCHANGED Outside

\* let mut last_seen_contents = read_to_string(&config_path).unwrap_or_default()
WatchStarts ==
  /\ watcher.pc = "starting"
  /\ LET read == read_to_string(file)
     IN watcher' = Watching("sleeping", IF read.ok THEN read.value ELSE EmptyText, None)
  /\ UNCHANGED <<history, file>>
  /\ EngineKept

\* The loop's read_to_string and the comparison with last_seen_contents
WatchReads ==
  /\ watcher.pc = "sleeping"
  /\ LET read == read_to_string(file)
     IN watcher' = IF read.ok /\ read.value # watcher.last_seen
                   THEN Watching("changed", watcher.last_seen, Some(read.value))
                   ELSE watcher
  /\ UNCHANGED <<history, file>>
  /\ EngineKept

Watched(decided) ==
  [op |-> "watch", before |-> Before, read |-> file.content,
   current |-> watcher.current.value, decided |-> decided]

\* AppConfig::load, validate, engine.lock() and reload_config, then
\* last_seen_contents = current_contents
WatchLoads ==
  /\ watcher.pc = "changed"
  /\ LET decided == changed_config(file)
     IN /\ IF decided.install.some
           THEN Becomes(reload_config(Engine, decided.install.value))
           ELSE UNCHANGED <<config, typed_buffer, max_trigger_chars,
                            active_modifiers, pending_expansion>>
        /\ history' = <<Watched(decided)>>
  /\ watcher' = Watching("sleeping", watcher.current.value, None)
  /\ UNCHANGED <<interim, injecting, captured, listener>>
  /\ UNCHANGED Outside

NextWatch ==
  \/ \E content \in FileContents : FileChanges(content)
  \/ \E event \in WatchEvents : Types(event)
  \/ WatchStarts
  \/ WatchReads
  \/ WatchLoads

SpecWatch == InitWatch /\ [][NextWatch]_vars

\* The watcher thread is scheduled: a step it can take is taken in the end
SpecWatchFair ==
  /\ InitWatch
  /\ [][NextWatch]_vars
  /\ WF_vars(WatchStarts)
  /\ WF_vars(WatchReads)
  /\ WF_vars(WatchLoads)

(***************************************************************************)
(* AppConfig::validate on its own (config.rs): applied to configurations   *)
(* put together from rules, menu snippets and tables of globals, sound and *)
(* defective.  The engine stays as it was built.                           *)
(***************************************************************************)
MaxSnippets == 2

TriggerPool == {<<>>, <<";", "g">>, <<"g">>}

SnippetPool ==
  { MenuSnippet(<<"t">>, <<"c">>),
    MenuSnippet(<<"T">>, <<"c">>),
    MenuSnippet(<<" ">>, <<"c">>),
    MenuSnippet(<<"t">>, <<>>) }

GlobalsPool ==
  { NoGlobals,
    Globals,
    (<<"A">> :> <<"x">>) @@ (<<"B">> :> <<"y">>),
    (<<"A">> :> <<"x">>) @@ (<<"a">> :> <<"y">>),
    (<<" ", "A">> :> <<"x">>),
    (<<" ", "A">> :> <<"x">>) @@ (<<"a">> :> <<"y">>),
    (<<" ">> :> <<"x">>),
    (<<"A", ":">> :> <<"x">>),
    (<<"{", "A">> :> <<"x">>) }

Candidates ==
  { [expansions |-> [k \in 1..Len(triggers) |-> ExpansionRule(triggers[k], <<"h", "i">>)],
     snippets |-> snippets, globals |-> globals,
     match_behavior |-> "Immediate", boundary_chars |-> None] :
      triggers \in SeqsUpTo(TriggerPool, MaxRules),
      snippets \in SeqsUpTo(SnippetPool, MaxSnippets),
      globals \in GlobalsPool }

InitValidate ==
  /\ \E cfg \in MacroConfigs : cfg.globals = NoGlobals /\ Starts(cfg)
  /\ \E cfg \in Candidates : history = <<Drawn(cfg)>>
  /\ interim = FALSE
  /\ Alone

\* config.validate() on the configuration at hand
Validate ==
  /\ history[1].op = "input"
  /\ Answers([op |-> "validate", config |-> history[1].input,
              ret |-> validate(history[1].input)])

NextValidate == Validate

SpecValidate == InitValidate /\ [][NextValidate]_vars

(***************************************************************************)
(* The vocabulary of the properties: the operation just handled, what a    *)
(* match on it should have produced, and what an execution looks like on   *)
(* the sink.  None of it is read by the engine above.                      *)
(***************************************************************************)
Last == history[Len(history)]

Handling == history # <<>> /\ Last.op = "handle_event"

Press == Handling /\ ~Last.event.is_injected /\ Last.event.kind = "Press"

Release == Handling /\ ~Last.event.is_injected /\ Last.event.kind = "Release"

PressOfChar == Press /\ Last.event.printable.some

PressOfKey(keys) ==
  /\ Press
  /\ ~Last.event.printable.some
  /\ Last.event.special.some
  /\ Last.event.special.value \in keys

ReleaseOfKey(keys) ==
  /\ Release
  /\ Last.event.special.some
  /\ Last.event.special.value \in keys

Immediate == config.match_behavior = "Immediate"

Boundary == config.match_behavior = "Boundary"

IsBoundary(c) == contains_char(boundary_chars(config), c)

\* The buffer once the character pressed is appended and the buffer cut to
\* its cap
Cap == max_trigger_chars + SlackWindow

Typed ==
  LET all == Append(Last.before.typed_buffer, Last.event.printable.value)
  IN IF Len(all) <= Cap THEN all ELSE SubSeq(all, Len(all) - Cap + 1, Len(all))

\* The press is one on which the mode looks for a match, and the text it
\* looks in
Checked ==
  \/ Immediate /\ PressOfChar
  \/ Boundary /\ PressOfChar /\ IsBoundary(Last.event.printable.value)
  \/ Boundary /\ PressOfKey({"Enter", "Tab"})

Candidate ==
  IF ~Last.event.printable.some THEN Last.before.typed_buffer
  ELSE IF Immediate THEN Typed
  ELSE SubSeq(Typed, 1, Len(Typed) - 1)

\* The rules whose trigger is a suffix of the text, and the first of them in
\* the configured order
Matching(text) ==
  {k \in 1..Len(config.expansions) : ends_with(text, config.expansions[k].trigger)}

First(text) == CHOOSE k \in Matching(text) : \A j \in Matching(text) : k <= j

Trigger(k) == config.expansions[k].trigger

Parsed(k) == parse_expansion_actions(config.expansions[k].expansion, config.globals)

\* A match is found on this press, and its expansion parses
Matched == Checked /\ Matching(Candidate) # {} /\ Parsed(First(Candidate)).ok

\* What the match is to send: the backspaces, one more when a boundary
\* character or key was typed after the trigger, and the actions, closed by
\* that character or key
Bonus == IF Boundary THEN 1 ELSE 0

MatchCount == Len(Trigger(First(Candidate))) + Bonus

MatchActions ==
  LET actions == Parsed(First(Candidate)).value
  IN IF Immediate THEN actions
     ELSE IF Last.event.printable.some
     THEN Append(actions, Text(<<Last.event.printable.value>>))
     ELSE Append(actions, Key(Last.event.special.value))

\* The calls of one execution: send_backspaces(count), then
\* send_actions(actions) unless the sink refused the backspaces
Executes(calls, count, actions) ==
  /\ calls # <<>>
  /\ calls[1] = send_backspaces(count, calls[1].ok)
  /\ IF calls[1].ok
     THEN /\ Len(calls) = 2
          /\ calls[2] = send_actions(actions, calls[2].ok)
     ELSE Len(calls) = 1

HeldBefore == Last.before.active_modifiers # NoModifiers

HeldAfter == active_modifiers # NoModifiers

SameBuffer == typed_buffer = Last.before.typed_buffer

SamePending == pending_expansion = Last.before.pending_expansion

SameEngine ==
  /\ config = Last.before.config
  /\ max_trigger_chars = Last.before.max_trigger_chars
  /\ active_modifiers = Last.before.active_modifiers
  /\ SameBuffer
  /\ SamePending

Quiet == Last.calls = <<>> /\ Last.stderr = <<>>

(***************************************************************************)
(* Typing a trigger in Immediate mode.                                     *)
(***************************************************************************)
Pressed == [i \in 1..Len(history) |-> history[i].event.printable.value]

Executions == {i \in 1..Len(history) : history[i].calls # <<>>}

\* Exactly the characters of rule k's trigger were pressed since the engine
\* was built, in Immediate mode, and its expansion parses
TriggerTyped(k) ==
  /\ Immediate
  /\ history # <<>>
  /\ Pressed = Trigger(k)
  /\ Parsed(k).ok

\* One execution, on the last press, of rule k's expansion
FiresOnce(k) ==
  /\ Executions = {Len(history)}
  /\ Executes(Last.calls, Len(Trigger(k)), Parsed(k).value)

\* No rule fires before rule k's trigger is complete, and none listed before
\* it fires in its place
Unshadowed(k) ==
  /\ \A j \in 1..Len(config.expansions), n \in 1..(Len(Trigger(k)) - 1) :
       ~ends_with(SubSeq(Trigger(k), 1, n), Trigger(j))
  /\ \A j \in 1..(k - 1) : ~ends_with(Trigger(k), Trigger(j))

\* C1 as the specification states it: in Immediate mode, for every validated
\* rule set and every trigger T in it, pressing T's characters one by one
\* from an empty buffer with no modifier held causes exactly one execution,
\* on the press of T's last character and not earlier, with a backspace
\* count of len(T).  It is read here for the rule sets whose expansions all
\* parse.
C1_AsStated ==
  (\A j \in 1..Len(config.expansions) : Parsed(j).ok) =>
    \A k \in 1..Len(config.expansions) : TriggerTyped(k) => FiresOnce(k)

\* C1: the same, for the triggers that no other rule shadows: no trigger of
\* the rule set is a suffix of a proper prefix of T, and no rule listed
\* before T's has a trigger that is a suffix of T.
C1_UnshadowedTriggerFiresOnce ==
  \A k \in 1..Len(config.expansions) :
    (TriggerTyped(k) /\ Unshadowed(k)) => FiresOnce(k)

\* A two-character trigger was typed and sent, listed before a rule whose
\* trigger is its last character
C1_Witness ==
  \E k \in 1..Len(config.expansions) :
    /\ TriggerTyped(k)
    /\ Unshadowed(k)
    /\ Len(Trigger(k)) = 2
    /\ \E j \in (k + 1)..Len(config.expansions) : ends_with(Trigger(k), Trigger(j))
    /\ Len(Last.calls) = 2
    /\ Last.calls[1] = send_backspaces(2, TRUE)

(***************************************************************************)
(* Rule order and the shape of a match.                                    *)
(***************************************************************************)

\* C2: when the triggers of several rules are suffixes of the candidate on
\* the same keystroke, in either mode, the rule that fires is the first of
\* them in the configured order, whatever the lengths of the triggers, and no
\* other rule fires on that keystroke: one trigger is reported, the first
\* rule's, and what is sent or deferred is that rule's count and actions.
C2_FirstRuleInOrderFires ==
  (Matched /\ Cardinality(Matching(Candidate)) >= 2) =>
     /\ Len(Last.stderr) = 1
     /\ Last.stderr[1].trigger = Trigger(First(Candidate))
     /\ IF HeldBefore
        THEN /\ Last.calls = <<>>
             /\ pending_expansion.some
             /\ pending_expansion.value.backspaces = MatchCount
             /\ pending_expansion.value.actions = MatchActions
        ELSE Executes(Last.calls, MatchCount, MatchActions)

\* A shorter trigger listed first has fired, and been sent, where a longer
\* one matched as well
C2_Witness ==
  /\ Matched
  /\ \E k \in Matching(Candidate) :
       Len(Trigger(k)) > Len(Trigger(First(Candidate)))
  /\ Len(Last.calls) = 2
  /\ Last.calls[1].count = Len(Trigger(First(Candidate))) + Bonus

\* C3: in Boundary mode with no modifier held, pressing a boundary character
\* c when the buffer without c ends with a trigger T executes T's expansion
\* with a backspace count of len(T) + 1 and with T's actions followed by
\* Text(c); c is never part of the candidate, so that when no trigger ends
\* the buffer without c nothing is matched, even if one ends the buffer
\* with c.
C3_BoundaryCharFires ==
  (Boundary /\ PressOfChar /\ IsBoundary(Last.event.printable.value)
     /\ ~HeldBefore) =>
     LET c == Last.event.printable.value
         text == SubSeq(Typed, 1, Len(Typed) - 1)
     IN IF Matching(text) = {}
        THEN Quiet /\ SamePending /\ typed_buffer = Typed
        ELSE Parsed(First(text)).ok =>
               /\ Executes(Last.calls, Len(Trigger(First(text))) + 1,
                           Append(Parsed(First(text)).value, Text(<<c>>)))
               /\ Last.stderr[1].trigger = Trigger(First(text))

\* A boundary character has fired a trigger, and the actions sent end
\* with it
C3_Witness ==
  /\ Boundary
  /\ PressOfChar
  /\ IsBoundary(Last.event.printable.value)
  /\ ~HeldBefore
  /\ Len(Last.calls) = 2
  /\ Last.calls[1].count = Len(Last.stderr[1].trigger) + 1
  /\ Last.calls[2].actions[Len(Last.calls[2].actions)]
       = Text(<<Last.event.printable.value>>)

\* C4: in Boundary mode, pressing Enter or Tab when the whole buffer ends
\* with a trigger T executes or defers T's expansion with a backspace count
\* of len(T) + 1 and with actions whose last is Key(Enter) or Key(Tab); and
\* in every match, in either mode, the count is len(T) + 1 exactly when a
\* boundary character or key caused the match, and len(T) otherwise.
C4_BoundaryKeyFires ==
  /\ (Boundary /\ PressOfKey({"Enter", "Tab"})
        /\ Matching(Last.before.typed_buffer) # {}
        /\ Parsed(First(Last.before.typed_buffer)).ok) =>
       LET T == Trigger(First(Last.before.typed_buffer))
           count == IF HeldBefore THEN pending_expansion.value.backspaces
                    ELSE Last.calls[1].count
           actions == IF HeldBefore THEN pending_expansion.value.actions
                      ELSE MatchActions
       IN /\ HeldBefore => Last.calls = <<>> /\ pending_expansion.some
          /\ ~HeldBefore => Executes(Last.calls, Len(T) + 1, MatchActions)
          /\ count = Len(T) + 1
          /\ actions[Len(actions)] = Key(Last.event.special.value)
  /\ (Press /\ Last.stderr # <<>> /\ (Last.calls # <<>> \/ Last.ret.ok)) =>
       LET T == Last.stderr[1].trigger
           count == IF Last.calls = <<>> THEN pending_expansion.value.backspaces
                    ELSE Last.calls[1].count
           caused == \/ Boundary /\ PressOfChar /\ IsBoundary(Last.event.printable.value)
                     \/ Boundary /\ PressOfKey({"Enter", "Tab"})
       IN count = Len(T) + (IF caused THEN 1 ELSE 0)

\* Tab has fired a trigger in Boundary mode, and the actions sent end with
\* the Tab key
C4_Witness ==
  /\ Boundary
  /\ PressOfKey({"Tab"})
  /\ Len(Last.calls) = 2
  /\ Last.calls[1].count = Len(Last.stderr[1].trigger) + 1
  /\ Last.calls[2].actions[Len(Last.calls[2].actions)] = Key("Tab")

\* C5: in Boundary mode a match is attempted only while a press of a
\* boundary character or of Enter or Tab is handled; the press of any other
\* printable character executes nothing and defers nothing, even if the
\* buffer then ends with a trigger.
C5_OnlyBoundariesMatch ==
  /\ (Boundary /\ PressOfChar /\ ~IsBoundary(Last.event.printable.value)) =>
       /\ Quiet
       /\ SamePending
       /\ Last.ret = Ok(Unit)
       /\ typed_buffer = Typed
  /\ (Boundary /\ Handling /\ Last.stderr # <<>>) =>
       \/ PressOfChar /\ IsBoundary(Last.event.printable.value)
       \/ PressOfKey({"Enter", "Tab"})

\* A character that is no boundary has completed a trigger in Boundary mode
C5_Witness ==
  /\ Boundary
  /\ PressOfChar
  /\ ~IsBoundary(Last.event.printable.value)
  /\ Matching(typed_buffer) # {}
  /\ Last.calls = <<>>

(***************************************************************************)
(* Deferral while a modifier is held, and the flush at its release.        *)
(***************************************************************************)

\* C6: when a trigger matches while at least one of shift, ctrl, alt, meta
\* is active, no call is made on the sink during that event; the pending
\* slot is set to the buffer as it stands at that instant, the backspace
\* count, the actions and the trigger; and the buffer is left as it is, not
\* cleared.
C6_MatchUnderModifierDefers ==
  (Matched /\ HeldBefore) =>
     /\ Last.calls = <<>>
     /\ Last.ret = Ok(Unit)
     /\ typed_buffer = (IF Last.event.printable.some THEN Typed
                        ELSE Last.before.typed_buffer)
     /\ pending_expansion =
          Some(PendingExpansion(typed_buffer, MatchCount, MatchActions,
                                Some(Trigger(First(Candidate)))))
     /\ active_modifiers = Last.before.active_modifiers

\* A trigger has matched under a held modifier: nothing was sent, the buffer
\* still holds the trigger and the slot holds its snapshot
C6_Witness ==
  /\ Matched
  /\ HeldBefore
  /\ Last.calls = <<>>
  /\ pending_expansion.some
  /\ pending_expansion.value.expected_buffer = typed_buffer
  /\ ends_with(typed_buffer, pending_expansion.value.notification_body.value)

C8_FlushNeedsAllReleased ==
  /\ (ReleaseOfKey(Modifiers) /\ HeldAfter) =>
       /\ Quiet
       /\ SamePending
       /\ SameBuffer
       /\ Last.ret = Ok(Unit)
  /\ (Release /\ Last.calls # <<>>) =>
       /\ active_modifiers = NoModifiers
       /\ Last.event.special.some
       /\ Last.event.special.value \in Modifiers
  /\ (Release /\ ~ReleaseOfKey(Modifiers)) =>
       /\ Quiet
       /\ SameEngine
       /\ Last.ret = Ok(Unit)

\* One of two held modifiers was released over a pending expansion whose
\* snapshot equals the buffer: it is still pending
C8_Witness ==
  /\ ReleaseOfKey(Modifiers)
  /\ Last.before.active_modifiers[
       CASE Last.event.special.value = "Shift" -> "shift"
         [] Last.event.special.value = "Ctrl" -> "ctrl"
         [] Last.event.special.value = "Alt" -> "alt"
         [] OTHER -> "meta"]
  /\ HeldAfter
  /\ pending_expansion.some
  /\ pending_expansion.value.expected_buffer = typed_buffer
  /\ Last.calls = <<>>

\* C9 as the specification states it: a deferred expansion is discarded, and
\* not executed, if a printable character or Backspace was pressed between
\* the deferral and the release of the last modifier.
C9_AsStated ==
  (ReleaseOfKey(Modifiers) /\ ~HeldAfter /\ Last.before.pending_expansion.some
     /\ interim) =>
     /\ Last.calls = <<>>
     /\ pending_expansion = None

\* C9: what the deferred expansion depends on is the buffer alone.  After
\* presses of printable characters or Backspace in the interim, the release
\* of the last modifier executes the pending expansion if the buffer equals
\* the snapshot again (a character typed and erased), and discards it
\* without a call if the buffer differs.
C9_InterimTypingDecidedByBuffer ==
  (ReleaseOfKey(Modifiers) /\ ~HeldAfter /\ Last.before.pending_expansion.some
     /\ interim) =>
     LET pending == Last.before.pending_expansion.value
     IN /\ pending_expansion = None
        /\ (Last.calls # <<>>) <=> (pending.expected_buffer = Last.before.typed_buffer)
        /\ Last.calls # <<>> =>
             /\ Last.calls[1].call = "send_backspaces"
             /\ Last.calls[1].count = pending.backspaces

\* Something was typed after the deferral, the buffer came back to the
\* snapshot, and the release of the last modifier sent the expansion
C9_Witness ==
  /\ ReleaseOfKey(Modifiers)
  /\ ~HeldAfter
  /\ Last.before.pending_expansion.some
  /\ interim
  /\ Len(Last.calls) = 2
  /\ Last.calls[1].ok /\ Last.calls[2].ok
  /\ typed_buffer = <<>>

\* C10: an event marked as injected returns Ok at once: the buffer, the
\* modifier flags, the pending slot and the rest of the engine are as
\* before, and no call is made on the sink.
C10_InjectedIgnored ==
  (Handling /\ Last.event.is_injected) =>
     /\ Last.ret = Ok(Unit)
     /\ Quiet
     /\ SameEngine

\* An injected Backspace press was handled over a buffer and a pending
\* expansion that a genuine one would have changed
C10_Witness ==
  /\ Handling
  /\ Last.event.is_injected
  /\ Last.event.kind = "Press"
  /\ Last.event.special = Some("Backspace")
  /\ typed_buffer # <<>>
  /\ pending_expansion.some

(***************************************************************************)
(* Executions and the sink's answers.                                      *)
(***************************************************************************)
\* C14 as the specification states it: whenever an expansion is executed,
\* directly or out of the pending slot, the buffer is empty and the pending
\* slot is empty once handle_event has returned, whether the sink accepted
\* the sends or refused one of them.
C14_AsStated ==
  (Handling /\ Last.calls # <<>>) =>
     /\ typed_buffer = <<>>
     /\ pending_expansion = None

\* C15 as the specification states it: every executed expansion calls
\* send_backspaces first and send_actions second, each exactly once, and
\* nothing else in between.
C15_AsStated ==
  (Handling /\ Last.calls # <<>>) =>
     /\ Len(Last.calls) = 2
     /\ Last.calls[1].call = "send_backspaces"
     /\ Last.calls[2].call = "send_actions"

(***************************************************************************)
(* The modifier flags.                                                     *)
(***************************************************************************)
FlagOf(m) ==
  CASE m = "Shift" -> "shift"
    [] m = "Ctrl" -> "ctrl"
    [] m = "Alt" -> "alt"
    [] m = "Meta" -> "meta"

\* C20: a modifier flag changes only when a genuine press or release of that
\* modifier is handled, the press setting it and the release clearing it; no
\* other press, release, execution, error or reload changes a flag; and the
\* press of a modifier leaves the buffer and the pending slot as they were.
C20_OnlyOwnKeyMovesFlag ==
  history # <<>> =>
    /\ \A m \in Modifiers :
         /\ PressOfKey({m}) => active_modifiers[FlagOf(m)]
         /\ ReleaseOfKey({m}) => ~active_modifiers[FlagOf(m)]
         /\ ~(PressOfKey({m}) \/ ReleaseOfKey({m})) =>
              active_modifiers[FlagOf(m)] = Last.before.active_modifiers[FlagOf(m)]
    /\ PressOfKey(Modifiers) =>
         /\ SameBuffer
         /\ SamePending
         /\ Quiet
         /\ Last.ret = Ok(Unit)

\* Shift was pressed while Ctrl was held over a buffer and a pending
\* expansion: only the shift flag moved
C20_Witness ==
  /\ PressOfKey({"Shift"})
  /\ ~Last.before.active_modifiers.shift
  /\ active_modifiers.shift
  /\ active_modifiers.ctrl
  /\ typed_buffer # <<>>
  /\ pending_expansion.some

(***************************************************************************)
(* The cap of the buffer, and reloads.                                     *)
(***************************************************************************)
\* The length of the longest trigger of the installed rule set
Longest ==
  IF config.expansions = <<>> THEN 0
  ELSE CHOOSE n \in {Len(Trigger(k)) : k \in 1..Len(config.expansions)} :
         \A k \in 1..Len(config.expansions) : Len(Trigger(k)) <= n

\* The last call found a match and stored it in the pending slot
StoredNow ==
  /\ Last.stderr # <<>>
  /\ Last.calls = <<>>
  /\ Last.ret.ok
  /\ pending_expansion.some

\* The press found the buffer full, so that appending to it overflowed
Overflowed ==
  /\ PressOfChar
  /\ Len(Last.before.typed_buffer) = Longest + SlackWindow

\* C12: after every handle_event and every reload_config the buffer holds at
\* most max_trigger_length + 8 characters, max_trigger_length being the
\* length of the longest trigger of the installed rule set; and the cut comes
\* right after the append and before the match check of the same event: the
\* buffer a match stores as its snapshot is the buffer already cut.
C12_BufferWithinCap ==
  /\ max_trigger_chars = Longest
  /\ Len(typed_buffer) <= Longest + SlackWindow
  /\ (PressOfChar /\ StoredNow) =>
        /\ pending_expansion.value.expected_buffer = typed_buffer
        /\ typed_buffer =
             LastChars(Append(Last.before.typed_buffer, Last.event.printable.value),
                       Longest + SlackWindow)

\* A press overflowed the full buffer and completed a trigger under Shift:
\* the match was stored with the buffer cut to its cap
C12_Witness ==
  /\ Overflowed
  /\ StoredNow
  /\ Len(typed_buffer) = Longest + SlackWindow

\* C13: truncation drops the oldest characters only, and never makes a match
\* go missing: when the characters appended last, with no clear or pop in
\* between, spell a trigger, the match check of the press finds a trigger at
\* the end of the buffer in Immediate mode, and at the end of the buffer
\* without its final boundary character in Boundary mode.
C13_TruncationKeepsNewest ==
  PressOfChar =>
    /\ Last.calls = <<>> =>
         typed_buffer =
           LastChars(Append(Last.before.typed_buffer, Last.event.printable.value),
                     Longest + SlackWindow)
    /\ \A k \in 1..Len(config.expansions) :
         LET spelt == IF Immediate THEN Last.appended
                      ELSE SubSeq(Last.appended, 1, Len(Last.appended) - 1)
         IN (Checked /\ ends_with(spelt, Trigger(k))) =>
               /\ Last.stderr # <<>>
               /\ \E j \in 1..k : Last.stderr[1].trigger = Trigger(j)

\* A two-character trigger was completed by a press that overflowed the
\* full buffer, and was sent
C13_Witness ==
  /\ Overflowed
  /\ Immediate
  /\ Len(Trigger(1)) = 2
  /\ ends_with(Last.appended, Trigger(1))
  /\ Len(Last.calls) = 2

\* C18: reload_config installs the new rule set and global table, recomputes
\* the longest trigger's length, empties the buffer and clears the pending
\* slot, all in the one call, and leaves the four modifier flags as they
\* were.
C18_ReloadInstallsAndClears ==
  (history # <<>> /\ Last.op = "reload_config") =>
     /\ config = Last.config
     /\ max_trigger_chars = Longest
     /\ typed_buffer = <<>>
     /\ pending_expansion = None
     /\ active_modifiers = Last.before.active_modifiers

\* A reload under Shift, over a buffer and a pending expansion, to a rule set
\* with another global table and a shorter longest trigger
C18_Witness ==
  /\ history # <<>>
  /\ Last.op = "reload_config"
  /\ Last.before.config.globals # config.globals
  /\ Last.before.max_trigger_chars > max_trigger_chars
  /\ Last.before.typed_buffer # <<>>
  /\ Last.before.pending_expansion.some
  /\ active_modifiers.shift

(***************************************************************************)
(* A matched rule whose expansion does not parse.                          *)
(***************************************************************************)
\* The press is one on which a match is looked for, the first rule that
\* matches is one whose expansion fails to render or parse
ParseFailed ==
  /\ Checked
  /\ Matching(Candidate) # {}
  /\ ~Parsed(First(Candidate)).ok

\* C16: when the matched rule's expansion fails to render or parse,
\* handle_event returns an error value, makes no call on the sink and tries
\* no later rule for that event; the buffer is not cleared and still holds
\* the typed trigger, and the modifier flags and the pending slot are as
\* before.
C16_ParseFailureChangesNothing ==
  ParseFailed =>
    /\ ~Last.ret.ok
    /\ Last.ret = Err(Parsed(First(Candidate)).error)
    /\ Last.calls = <<>>
    /\ Len(Last.stderr) = 1
    /\ Last.stderr[1].trigger = Trigger(First(Candidate))
    /\ typed_buffer = IF PressOfChar THEN Typed ELSE Last.before.typed_buffer
    /\ active_modifiers = Last.before.active_modifiers
    /\ SamePending
    /\ config = Last.before.config

\* Under Shift, with an expansion pending, Enter matched the rule that does
\* not parse: the error came back, the pending expansion and the buffer
\* stayed
C16_Witness ==
  /\ ParseFailed
  /\ PressOfKey({"Enter"})
  /\ ~Last.ret.ok
  /\ pending_expansion.some
  /\ active_modifiers.shift
  /\ typed_buffer # <<>>

(***************************************************************************)
(* The program running: the listener, the sink's own keys, the watcher.    *)
(***************************************************************************)
\* C11 as the specification states it: every key event that the listener
\* captures as a consequence of the sink's own synthetic output reaches
\* handle_event with is_injected = true, so that the engine neither appends
\* it to the buffer nor fires a trigger on it.
C11_AsStated ==
  (Handling /\ Last.synthetic) =>
     /\ Last.event.is_injected
     /\ SameBuffer
     /\ Quiet

\* C17 as the specification states it: a sink failure is scoped to the one
\* attempt: once send_backspaces or send_actions has returned, with Ok or
\* with an error, the backend's injecting flag is false again, and the
\* genuine key events captured afterwards are mapped with
\* is_injected = false.
C17_AsStated ==
  /\ ~injecting
  /\ (Handling /\ ~Last.synthetic) => ~Last.event.is_injected

\* The count and the action list are those that a rule of the installed
\* rule set gives in the installed mode
FromRuleSet(count, actions) ==
  \E k \in 1..Len(config.expansions) :
    /\ Parsed(k).ok
    /\ count = Len(Trigger(k)) + Bonus
    /\ Len(actions) = Len(Parsed(k).value) + Bonus
    /\ SubSeq(actions, 1, Len(Parsed(k).value)) = Parsed(k).value

\* The same of the calls of an execution, which stop at the send the sink
\* refuses
CallsFromRuleSet(calls) ==
  IF Len(calls) = 2
  THEN FromRuleSet(calls[1].count, calls[2].actions)
  ELSE \E k \in 1..Len(config.expansions) :
         calls[1].count = Len(Trigger(k)) + Bonus

\* C19: under every interleaving of the watcher thread and the listener
\* thread, reload_config and handle_event never overlap, each running
\* wholly under the engine mutex; and once a reload has completed, no sink
\* call carries a count or an action list computed from a rule of the rule
\* set it replaced: what is sent, and what is pending, comes from the
\* installed rule set.
C19_ReloadExcludesHandling ==
  /\ ~(listener.pc = "locked" /\ watcher.pc = "locked")
  /\ Handling =>
       /\ config = Last.before.config
       /\ Last.calls # <<>> => CallsFromRuleSet(Last.calls)
  /\ pending_expansion.some =>
       FromRuleSet(pending_expansion.value.backspaces,
                   pending_expansion.value.actions)

\* A reload has just replaced the rule set over a pending expansion, while
\* the listener, holding the release of Shift that would have sent it, was
\* waiting for the engine
C19_Witness ==
  /\ history # <<>>
  /\ Last.op = "reload_config"
  /\ Last.before.config # config
  /\ Last.before.pending_expansion.some
  /\ Last.before.pending_expansion.value.expected_buffer = Last.before.typed_buffer
  /\ listener.pc = "mapped"
  /\ listener.event = Some(release_special("Shift"))

(***************************************************************************)
(* The keys that are not characters.                                       *)
(***************************************************************************)
\* C21: a genuine press of Backspace takes the last character off the buffer,
\* or leaves an empty buffer empty; it looks for no match, calls nothing on
\* the sink and leaves the modifier flags and the pending slot as they were.
C21_BackspacePopsOne ==
  PressOfKey({"Backspace"}) =>
    /\ Len(Last.before.typed_buffer) = 0 => typed_buffer = <<>>
    /\ Len(Last.before.typed_buffer) > 0 =>
         typed_buffer = SubSeq(Last.before.typed_buffer, 1,
                               Len(Last.before.typed_buffer) - 1)
    /\ Quiet
    /\ Last.ret = Ok(Unit)
    /\ active_modifiers = Last.before.active_modifiers
    /\ SamePending

\* Backspace was pressed over a buffer of two characters, the second of them
\* a trigger that is pending under a held modifier: one character is left
C21_Witness ==
  /\ PressOfKey({"Backspace"})
  /\ Len(Last.before.typed_buffer) = 2
  /\ Len(typed_buffer) = 1
  /\ pending_expansion.some
  /\ HeldAfter

\* C22: in Immediate mode a genuine press of Enter or Tab empties the buffer
\* and neither executes nor defers an expansion: no match is looked for, the
\* sink is not called and the pending slot stays as it was.  What was typed
\* before the key is gone from the buffer, so no later match can hold it.
C22_EnterClearsInImmediate ==
  (Immediate /\ PressOfKey({"Enter", "Tab"})) =>
    /\ typed_buffer = <<>>
    /\ Quiet
    /\ Last.ret = Ok(Unit)
    /\ SamePending

\* Tab was pressed in Immediate mode over a buffer that ends with a trigger
C22_Witness ==
  /\ Immediate
  /\ PressOfKey({"Tab"})
  /\ Matching(Last.before.typed_buffer) # {}
  /\ typed_buffer = <<>>

\* The keys that on_special_key_press tells apart by name
NamedKeys == Modifiers \cup {"Backspace", "Enter", "Tab"}

\* C23 as stated: a genuine press of any key that is not a character, other
\* than Backspace, the four modifiers, Enter and Tab, empties the buffer, in
\* both modes.
C23_AsStated ==
  PressOfKey(SpecialInputKey \ NamedKeys) => typed_buffer = <<>>

\* C23, amended: a genuine press of any key that is not a character, other
\* than Backspace, the four modifiers, CapsLock, Enter and Tab, empties the
\* buffer, in both modes, and does nothing else; a press of CapsLock leaves
\* the buffer as it was.
C23_OtherKeysClear ==
  /\ PressOfKey(SpecialInputKey \ (NamedKeys \cup {"CapsLock"})) =>
       /\ typed_buffer = <<>>
       /\ Quiet
       /\ Last.ret = Ok(Unit)
       /\ SamePending
       /\ active_modifiers = Last.before.active_modifiers
  /\ PressOfKey({"CapsLock"}) =>
       /\ Quiet
       /\ SameEngine
       /\ Last.ret = Ok(Unit)

\* A key the source has no name for was pressed in Boundary mode over a
\* buffer that held a trigger: the buffer is empty
C23_Witness ==
  /\ PressOfKey({"Unknown"})
  /\ Boundary
  /\ Matching(Last.before.typed_buffer) # {}
  /\ typed_buffer = <<>>

(***************************************************************************)
(* One pending expansion at a time.                                        *)
(***************************************************************************)
\* C24: the slot holds one expansion at most.  A match made while a modifier
\* is held and an expansion is pending puts the new match in the slot: its
\* snapshot of the buffer, its count and its actions.  The release that
\* executes sends one expansion, the one stored last, and none of those it
\* replaced.
C24_LaterMatchReplacesPending ==
  /\ (Matched /\ HeldBefore /\ Last.before.pending_expansion.some) =>
       /\ pending_expansion =
            Some(PendingExpansion(typed_buffer, MatchCount, MatchActions,
                                  Some(Trigger(First(Candidate)))))
       /\ Last.latest = pending_expansion
       /\ Sends(Last.before.pending_expansion.value) \in Last.replaced
  /\ (Release /\ Last.calls # <<>>) =>
       /\ Last.latest.some
       /\ Last.latest = Last.before.pending_expansion
       /\ Executes(Last.calls, Last.latest.value.backspaces, Last.latest.value.actions)
       /\ pending_expansion = None
       /\ \A r \in Last.replaced :
            /\ r.backspaces # Last.latest.value.backspaces =>
                 Last.calls[1].count # r.backspaces
            /\ (r.actions # Last.latest.value.actions /\ Len(Last.calls) = 2) =>
                 Last.calls[2].actions # r.actions

\* Under a held modifier the shorter trigger matched and then the longer
\* one; at the release the longer one's expansion was sent, with its count
C24_Witness ==
  /\ Release
  /\ Len(Last.calls) = 2
  /\ Last.replaced # {}
  /\ \E r \in Last.replaced :
       /\ r.actions # Last.calls[2].actions
       /\ r.backspaces < Last.calls[1].count
  /\ pending_expansion = None

(***************************************************************************)
(* The macro language: what a text mentions, and which tables have cycles. *)
(***************************************************************************)
Open == <<"{", "{">>
Close == <<"}", "}">>

\* The bodies of the `{{...}}` occurrences of a text, trimmed
Bodies(s) ==
  { trim(Slice(s, i + 2, j)) : <<i, j>> \in
      { p \in (0..Len(s)) \X (0..Len(s)) :
          /\ p[1] + 2 <= p[2]
          /\ p[2] + 2 <= Len(s)
          /\ Slice(s, p[1], p[1] + 2) = Open
          /\ Slice(s, p[2], p[2] + 2) = Close
          /\ \A k \in (p[1] + 2)..(p[2] - 1) : Slice(s, k, k + 2) # Close } }

HasColon(body) == \E k \in 1..Len(body) : body[k] = ":"

\* The names a text refers to without a value part
Mentioned(s) == { to_ascii_uppercase(body) : body \in {b \in Bodies(s) : ~HasColon(b)} }

Names(globals) == { to_ascii_uppercase(g) : g \in DOMAIN globals }

ValueOf(globals, name) == globals[CHOOSE g \in DOMAIN globals : to_ascii_uppercase(g) = name]

Refers(globals, a, b) == b \in Mentioned(ValueOf(globals, a))

RECURSIVE ReachedFrom(_, _, _)
ReachedFrom(globals, seen, n) ==
  IF n = 0 THEN seen
  ELSE ReachedFrom(globals,
         seen \cup { b \in Names(globals) : \E a \in seen : Refers(globals, a, b) }, n - 1)

\* The names resolving `name` runs into, itself left out unless met again
Below(globals, name) ==
  ReachedFrom(globals, { b \in Names(globals) : Refers(globals, name, b) },
              Cardinality(Names(globals)))

Acyclic(globals) == \A name \in Names(globals) : name \notin Below(globals, name)

Rendering == Last.op = "render_template_macros"

CycleError == ~Last.ret.ok /\ Last.ret.error.kind = "global macro cycle detected"

\* C25: render_template_macros returns for every input and table; a cycle
\* error carries the chain of names in resolution order, each referring to
\* the next, the first mentioned by the input, the last one repeating an
\* earlier one and no other name repeated; a table without cycles never
\* gives a cycle error, and a text that is one name leading to a cycle through
\* values that mention names of the table only does.
C25_CycleNamesChain ==
  Rendering =>
    /\ Last.ret.ok \in BOOLEAN
    /\ CycleError =>
         LET chain == Last.ret.error.chain
             n == Len(chain)
         IN /\ n >= 2
            /\ chain[1] \in Mentioned(Last.input)
            /\ \A k \in 1..n : chain[k] \in Names(Last.globals)
            /\ \A k \in 1..(n - 1) : Refers(Last.globals, chain[k], chain[k + 1])
            /\ \E k \in 1..(n - 1) : chain[k] = chain[n]
            /\ \A j, k \in 1..(n - 1) : j # k => chain[j] # chain[k]
    /\ Acyclic(Last.globals) => ~CycleError
    /\ (\E name \in Names(Last.globals) :
          /\ Last.input = Open \o name \o Close
          /\ \E b \in Below(Last.globals, name) \cup {name} : b \in Below(Last.globals, b)
          /\ \A b \in Below(Last.globals, name) \cup {name} :
               /\ Mentioned(ValueOf(Last.globals, b)) \subseteq Names(Last.globals)
               /\ \A body \in Bodies(ValueOf(Last.globals, b)) : ~HasColon(body))
         => CycleError

C25_Witness ==
  /\ Rendering
  /\ CycleError
  /\ Last.ret.error.chain = <<<<"C">>, <<"A">>, <<"B">>, <<"A">>>>


\* The `{{...}}` occurrences of a text in the order a scan from the left
\* meets them, each from its opening to the first closing braces after it
ClosesAt(s, i) == { j \in i..(Len(s) - 2) : Slice(s, j, j + 2) = Close }

RECURSIVE Occurrences(_, _)
Occurrences(s, i) ==
  IF i + 2 > Len(s) THEN <<>>
  ELSE IF Slice(s, i, i + 2) = Open /\ ClosesAt(s, i + 2) # {}
  THEN LET j == CHOOSE c \in ClosesAt(s, i + 2) : \A d \in ClosesAt(s, i + 2) : c <= d
       IN <<Slice(s, i, j + 2)>> \o Occurrences(s, j + 2)
  ELSE Occurrences(s, i + 1)

BodyOf(macro) == trim(Slice(macro, 2, Len(macro) - 2))

RECURSIVE UpTo(_, _)
UpTo(s, c) == IF s = <<>> \/ s[1] = c THEN <<>> ELSE <<s[1]>> \o UpTo(Tail(s), c)

\* The name of a macro: its body up to the first colon, trimmed, in upper case
NameOf(macro) == to_ascii_uppercase(trim(UpTo(BodyOf(macro), ":")))

\* DATE, TIME, DATETIME or a global name without a value part; CMD, COMMAND
\* or EMOJI with one
IsTemplateMacro(macro, globals) ==
  IF HasColon(BodyOf(macro))
  THEN NameOf(macro) \in {CMD, COMMAND, EMOJI}
  ELSE NameOf(macro) \in {DATE, TIME, DATETIME} \cup Names(globals)

IsActionMacro(macro) ==
  /\ HasColon(BodyOf(macro))
  /\ NameOf(macro) \in {KEY, SLEEP_MS, MOVE_CARET, CARET_MOVE}

ActionMacros(s) ==
  LET IsAction(macro) == IsActionMacro(macro)
  IN SelectSeq(Occurrences(s, 0), IsAction)

RECURSIVE IsSubSeq(_, _)
IsSubSeq(a, b) ==
  IF a = <<>> THEN TRUE
  ELSE IF b = <<>> THEN FALSE
  ELSE IF a[1] = b[1] THEN IsSubSeq(Tail(a), Tail(b))
  ELSE IsSubSeq(a, Tail(b))

RenderedAgain == Rendering /\ Last.again

\* C26: over a table without cycles, rendering what render_template_macros
\* returned succeeds and returns the same string.
C26_AsStated ==
  (RenderedAgain /\ Acyclic(Last.globals)) =>
    /\ Last.ret.ok
    /\ Last.ret.value = Last.input

\* C27: what render_template_macros returns holds no `{{...}}` occurrence
\* that is a template macro, and holds the action macros of the input
\* unchanged and in their order.
C27_AsStated ==
  (Rendering /\ Last.ret.ok) =>
    /\ \A k \in 1..Len(Occurrences(Last.ret.value, 0)) :
         ~IsTemplateMacro(Occurrences(Last.ret.value, 0)[k], Last.globals)
    /\ IsSubSeq(ActionMacros(Last.input), ActionMacros(Last.ret.value))


\* The text rendered is one macro, alone or next to plain text
Single ==
  /\ Rendering
  /\ ~Last.again
  /\ Len(Occurrences(Last.input, 0)) = 1
  /\ \E pre \in {<<>>, <<"x">>}, post \in {<<>>, <<"x">>} :
       Last.input = pre \o Occurrences(Last.input, 0)[1] \o post

TheMacro == Occurrences(Last.input, 0)[1]

LeftLiteral == Last.ret.ok /\ Last.ret.value = Last.input

Unsupported(name) ==
  /\ ~Last.ret.ok
  /\ Last.ret.error.kind = "unsupported macro"
  /\ Last.ret.error.name = name

\* C28, as stated: pass 1 leaves a macro as literal text exactly if its name
\* is none of DATE, TIME, DATETIME, a global name, CMD, COMMAND, EMOJI.
C28_AsStated ==
  Single =>
    (LeftLiteral <=>
       NameOf(TheMacro) \notin {DATE, TIME, DATETIME, CMD, COMMAND, EMOJI}
                                 \cup Names(Last.globals))

\* C28: pass 1 leaves a macro as literal text exactly if its body has a
\* colon and the name before the first colon is none of CMD, COMMAND, EMOJI;
\* a body without a colon is resolved as DATE, TIME, DATETIME or a global
\* name, and fails as an unsupported macro exactly if it is none of them.
C28_ColonDecides ==
  Single =>
    /\ LeftLiteral <=>
         /\ HasColon(BodyOf(TheMacro))
         /\ NameOf(TheMacro) \notin {CMD, COMMAND, EMOJI}
    /\ ~HasColon(BodyOf(TheMacro)) =>
         (Unsupported(NameOf(TheMacro)) <=>
            NameOf(TheMacro) \notin {DATE, TIME, DATETIME} \cup Names(Last.globals))

C28_Witness ==
  /\ Single
  /\ LeftLiteral
  /\ NameOf(TheMacro) = DATE


Parsing == Last.op = "parse_expansion_actions"

\* The text the second pass scans, where there is one
PassTwo ==
  \/ Last.op = "parse_action_macros_only"
  \/ Parsing /\ Last.templated.ok

PassTwoInput == IF Parsing THEN Last.templated.value ELSE Last.input

\* The literal runs of a text: what lies before, between and after the
\* macros that have a colon, the empty runs left out
RECURSIVE RunsFrom(_, _, _)
RunsFrom(s, i, run) ==
  IF i >= Len(s) THEN (IF run = <<>> THEN <<>> ELSE <<run>>)
  ELSE IF Slice(s, i, IF i + 2 <= Len(s) THEN i + 2 ELSE i + 1) = Open
          /\ ClosesAt(s, i + 2) # {}
  THEN LET j == CHOOSE c \in ClosesAt(s, i + 2) : \A d \in ClosesAt(s, i + 2) : c <= d
       IN IF HasColon(Slice(s, i + 2, j))
          THEN (IF run = <<>> THEN <<>> ELSE <<run>>) \o RunsFrom(s, j + 2, <<>>)
          ELSE RunsFrom(s, j + 2, run \o Slice(s, i, j + 2))
  ELSE RunsFrom(s, i + 1, Append(run, s[i + 1]))

IsText(action) == action.tag = "Text"

TextsOf(actions) ==
  LET texts == SelectSeq(actions, IsText)
  IN [k \in 1..Len(texts) |-> texts[k].text]

\* C29: parse_expansion_actions gives one Text action for every literal run,
\* in source order, none empty, no two next to each other, and exactly one
\* Text action equal to the input when the input holds no macro.
C29_AsStated ==
  (Parsing /\ Last.ret.ok) =>
    /\ \A k \in 1..Len(Last.ret.value) :
         IsText(Last.ret.value[k]) => Last.ret.value[k].text # <<>>
    /\ \A k \in 1..(Len(Last.ret.value) - 1) :
         ~(IsText(Last.ret.value[k]) /\ IsText(Last.ret.value[k + 1]))
    /\ TextsOf(Last.ret.value) = RunsFrom(Last.templated.value, 0, <<>>)
    /\ (Occurrences(Last.input, 0) = <<>> /\ Last.input # <<>>) =>
         Last.ret.value = <<Text(Last.input)>>

\* C30: in the second pass a macro whose body has no colon makes the parse
\* fail; no Text action carries it.
C30_AsStated ==
  (PassTwo /\ \E k \in 1..Len(Occurrences(PassTwoInput, 0)) :
                ~HasColon(BodyOf(Occurrences(PassTwoInput, 0)[k])))
    => ~Last.ret.ok


\* The offsets of the `{{` of a text that no `}}` follows
Unclosed(s) ==
  { i \in 0..(Len(s) - 2) : Slice(s, i, i + 2) = Open /\ ClosesAt(s, i + 2) = {} }

FirstUnclosed(s) == CHOOSE i \in Unclosed(s) : \A j \in Unclosed(s) : i <= j

UnclosedError == ~Last.ret.ok /\ Last.ret.error.kind = "unclosed macro"

\* The texts a call scans: its input, the values of the globals, and what
\* the first pass hands to the second
Scanned ==
  {Last.input}
    \cup {Last.globals[g] : g \in DOMAIN Last.globals}
    \cup (IF Parsing /\ Last.templated.ok THEN {Last.templated.value} ELSE {})

FirstTime == (Rendering /\ ~Last.again) \/ Parsing

Delivering == listener.pc \in {"mapped", "locked"}

Delivered == listener.event.value

\* C32: a Press handed to the engine has exactly one of printable and special
\* populated, and a Release has special only.
C32_AsStated ==
  Delivering =>
    /\ Delivered.kind = "Press" => (Delivered.printable.some # Delivered.special.some)
    /\ Delivered.kind = "Release" =>
         (~Delivered.printable.some /\ Delivered.special.some)


Validating == Last.op = "validate"

Rules == Last.config.expansions

Snippets == Last.config.snippets

GlobalNames == DOMAIN Last.config.globals

EmptyRuleList == Rules = <<>>

EmptyTrigger == \E k \in 1..Len(Rules) : Rules[k].trigger = <<>>

SameTrigger == \E j, k \in 1..Len(Rules) : j # k /\ Rules[j].trigger = Rules[k].trigger

BlankTitle ==
  \E k \in 1..Len(Snippets) :
    \A c \in 1..Len(Snippets[k].title) : Snippets[k].title[c] \in WhiteSpace

SameTitle == \E j, k \in 1..Len(Snippets) : j # k /\ Snippets[j].title = Snippets[k].title

EmptyContent == \E k \in 1..Len(Snippets) : Snippets[k].content = <<>>

\* A name is well formed if it is not blank, has no white space around it
\* and holds none of `{`, `}`, `:`
WellFormed(name) ==
  /\ name # <<>>
  /\ name[1] \notin WhiteSpace
  /\ name[Len(name)] \notin WhiteSpace
  /\ \A k \in 1..Len(name) : name[k] \notin {"{", "}", ":"}

SameGlobalName ==
  \E g, h \in GlobalNames : g # h /\ to_ascii_uppercase(g) = to_ascii_uppercase(h)

Defective ==
  \/ EmptyRuleList
  \/ EmptyTrigger
  \/ SameTrigger
  \/ BlankTitle
  \/ SameTitle
  \/ EmptyContent
  \/ SameGlobalName

\* C33: AppConfig::validate returns an error for an empty rule list, an empty
\* trigger, two rules with one trigger, a blank or repeated snippet title, an
\* empty snippet content, and two global names equal ignoring case; it
\* returns Ok for every configuration with none of these whose global names
\* are well formed.
C33_ValidateRejectsDefects ==
  Validating =>
    /\ Defective => ~Last.ret
    /\ (~Defective /\ \A g \in GlobalNames : WellFormed(g)) => Last.ret

C33_Witness ==
  /\ Validating
  /\ ~Last.ret
  /\ SameGlobalName
  /\ ~(EmptyRuleList \/ EmptyTrigger \/ SameTrigger \/ BlankTitle \/ SameTitle \/ EmptyContent)


\* C35: an occupied pending slot has a modifier held; and a press that sends
\* its expansion at once, no modifier being held, found the slot empty.
C35_PendingNeedsModifier ==
  /\ pending_expansion.some => any_active(active_modifiers)
  /\ (Press /\ Last.calls # <<>> /\ ~HeldBefore) => ~Last.before.pending_expansion.some

\* A pending expansion whose buffer changed, one modifier of two released
C35_Witness ==
  /\ ReleaseOfKey(Modifiers)
  /\ pending_expansion.some
  /\ pending_expansion.value.expected_buffer # typed_buffer
  /\ Cardinality({m \in DOMAIN active_modifiers : active_modifiers[m]}) = 1


\* The presses that made a call on the sink, and the characters pressed
\* after the last of them
Sending == {i \in 1..Len(history) : history[i].calls # <<>>}

LastSending == IF Sending = {} THEN 0 ELSE CHOOSE i \in Sending : \A j \in Sending : j <= i

RECURSIVE CharsPressed(_, _)
CharsPressed(from, to) ==
  IF from > to THEN <<>>
  ELSE (IF history[from].event.printable.some
        THEN <<history[from].event.printable.value>> ELSE <<>>)
         \o CharsPressed(from + 1, to)

Unmatched == Boundary /\ Checked /\ Matching(Candidate) = {}

\* C36: in Boundary mode a press of Enter or Tab that matches no trigger
\* leaves the buffer as it was, and a boundary character that matches no
\* trigger stays appended; neither calls the sink nor writes the pending
\* slot.  The buffer therefore holds every character pressed since the last
\* expansion was sent, whatever unmatched keys were pressed in between.
C36_UnmatchedBoundaryKeeps ==
  Handling =>
    /\ (Unmatched /\ PressOfKey({"Enter", "Tab"})) =>
         (SameBuffer /\ SamePending /\ Quiet)
    /\ (Unmatched /\ PressOfChar) =>
         (typed_buffer = Typed /\ SamePending /\ Quiet)
    /\ typed_buffer = CharsPressed(LastSending + 1, Len(history))

\* ; Enter g Enter: the trigger ;g matches across the unmatched Enter
C36_Witness ==
  /\ Len(history) = 4
  /\ history[1].event = press_char(";")
  /\ history[2].event = press_special("Enter")
  /\ history[2].calls = <<>>
  /\ history[3].event = press_char("g")
  /\ Matched
  /\ PressOfKey({"Enter"})
  /\ Trigger(First(Candidate)) = <<";", "g">>
  /\ Sending = {4}


(***************************************************************************)
(* The instance lock, one call at a time.                                  *)
(***************************************************************************)
\* The last call was acquire_from_path
Acquiring == history # <<>> /\ Last.op = "acquire_from_path"

\* The last call dropped an InstanceLock
Dropping == history # <<>> /\ Last.op = "drop"

\* The path named a socket file that nobody listened on
WasStale == Last.before.path.some /\ ~connect(Last.before)

\* C34: acquire_from_path fails while an InstanceLock acquired for the path
\* is still held, and leaves the path as it was; it succeeds on a free path
\* and on a leftover socket file without a listener, which it removes and
\* binds again for the caller; dropping an InstanceLock removes the socket
\* file and closes the listener, so that the next acquire of any process
\* succeeds.
C34_LockExcludesAndRecovers ==
  /\ Acquiring =>
       /\ Last.holders # {} => Last.ret = AlreadyRunning /\ lockfile = Last.before
       /\ (Last.holders = {} /\ WasStale) =>
            /\ Last.ret = Ok(InstanceLock(Last.proc))
            /\ lockfile.path = Some(Last.proc)
            /\ connect(lockfile)
       /\ ~Last.before.path.some => Last.ret.ok
       /\ Last.ret.ok <=> instances[Last.proc].pc = "holding"
  /\ Dropping =>
       /\ ~path_exists(lockfile)
       /\ Last.proc \notin lockfile.listening
       /\ \A p \in Procs : acquire_from_path(lockfile, p).ret.ok
  /\ Cardinality(Holders) <= 1

\* A process takes the lock over the file that a killed holder left behind
C34_Witness ==
  /\ Acquiring
  /\ WasStale
  /\ Last.before.path.value \in Procs \ {Last.proc}
  /\ Holders = {Last.proc}

(***************************************************************************)
(* The instance lock, calls interleaved.                                   *)
(***************************************************************************)
\* The last step removed the socket file that a process other than the one
\* stepping had bound and still held
RemovedHoldersFile ==
  /\ history # <<>>
  /\ Last.op \in {"remove_file", "drop"}
  /\ Last.before.path.some
  /\ Last.before.path.value \in Last.holders \ {Last.proc}
  /\ ~lockfile.path.some

\* C39: however the steps of two processes that call acquire_from_path on
\* the same path interleave, a stale socket file being there or not, at most
\* one process holds an InstanceLock, and neither the acquire nor the drop
\* of a process removes the socket file of the other process that holds one.
C39_AsStated ==
  /\ Cardinality(Holders) <= 1
  /\ ~RemovedHoldersFile

(***************************************************************************)
(* The configuration file and its watcher.                                 *)
(***************************************************************************)
\* The watcher has just dealt with a changed file
WatchStep == history # <<>> /\ Last.op = "watch"

\* What AppConfig::load made of the file when the watcher called it
LoadedThen == load([content |-> Last.read])

\* The file did not load, or what it loaded did not validate
Rejected == ~LoadedThen.ok \/ ~validate(LoadedThen.value)

Triggers(cfg) == {cfg.expansions[i].trigger : i \in DOMAIN cfg.expansions}

\* C38: the configuration the engine runs with, given to it at start-up or by
\* the watcher, passes AppConfig::validate, so its triggers are non-empty and
\* no two rules share one; when the changed file fails to load or to
\* validate, the watcher does not call reload_config and the engine's
\* configuration, typed buffer and pending slot are what they were.
C38_OnlyValidatedInstalled ==
  /\ validate(config)
  /\ <<>> \notin Triggers(config)
  /\ Cardinality(Triggers(config)) = Len(config.expansions)
  /\ (WatchStep /\ Rejected) =>
       /\ ~Last.decided.install.some
       /\ config = Last.before.config
       /\ typed_buffer = Last.before.typed_buffer
       /\ pending_expansion = Last.before.pending_expansion
  /\ (WatchStep /\ ~Rejected) => config = LoadedThen.value

\* The file changed to a configuration that does not validate while the
\* engine held typed characters and a pending expansion
C38_Witness ==
  /\ WatchStep
  /\ LoadedThen.ok
  /\ ~validate(LoadedThen.value)
  /\ typed_buffer # <<>>
  /\ pending_expansion.some

ValidConfigs == {cfg \in WatchConfigs : validate(cfg)}

\* C37: with the watcher thread scheduled fairly, if the file stops changing
\* and its final text is a configuration that validates, then from some
\* moment on the engine runs with the rules of that configuration, whenever
\* the file was written relative to the watcher's reads.
C37_AsStated ==
  \A cfg \in ValidConfigs :
    <>[](file.content = Some(Yaml(cfg))) => <>[](config.expansions = cfg.expansions)

====
